---- MODULE Spec2Model ----
(***************************************************************************)
(* Verification model of the upkeep toolkit (llbbl/upkeep).                *)
(*                                                                         *)
(* Components modelled, each with its own specification:                   *)
(*   SpecPM      package-manager detector  (lib/analyzers/package-manager) *)
(*   SpecSemver  version comparator        (lib/utils/semver)              *)
(*   SpecAudit   audit-output normalizer   (lib/analyzers/audit)           *)
(*   SpecExec    command executor          (lib/utils/exec)                *)
(*   SpecAnalyze analyzeDeps / analyzeAudit running their commands         *)
(*   SpecQuality quality scorer            (lib/scorers/quality)           *)
(*   SpecOutdated outdated normalizers     (lib/analyzers/deps)            *)
(*   SpecOverall calculateOverallScore     (lib/scorers/quality)           *)
(*   SpecRisk    upgrade risk scorer       (lib/scorers/risk)              *)
(*   SpecDependabot  Dependabot analyzer   (lib/analyzers/dependabot)      *)
(*   SpecImports imports analyzer          (lib/analyzers/imports)         *)
(*   SpecSecurity  both readings of one audit output (deps and audit)      *)
(*                                                                         *)
(* JavaScript strings that the code inspects character by character are    *)
(* sequences of one-character strings; null is an explicit marker.         *)
(***************************************************************************)
EXTENDS Integers, Sequences, FiniteSets, TLC

VARIABLES
    pmFiles,      \* set of lockfile names that exist in the project directory
    pmManifest,   \* package.json as readPackageJson sees it
    pmResult,     \* PackageManagerInfo returned by detectPackageManager
    svCurrent,    \* first version string handed to the comparator
    svLatest,     \* second version string handed to the comparator
    svUpdate,     \* result of getUpdateType(svCurrent, svLatest)
    svCmp,        \* results of compareSemver on (a,b), (b,a) and (a,a)
    auOutput,     \* raw output of an audit command, handed to a parser
    auResult,     \* AuditResult | null returned by the parser
    exEnv,        \* what the operating system will do with the command exec runs
    ex,           \* one call of exec: child process, timer, promises, outcome
    an,           \* one call of analyzeDeps or analyzeAudit
    qa,           \* one call of assessQuality: its five analyzers and its report
    od,           \* one call of an outdated normalizer: its input and its outcome
    ov,           \* two calls of calculateOverallScore: their breakdowns and scores
    rk,           \* one call of assessRisk and one of getRiskLevel
    db,           \* one call of analyzeDependabot: the commands it ran and its result
    im,           \* one call of analyzeImports: the files it read and its analysis
    dp            \* the deps analyzer's reading of the audit output in auOutput

pmVars == <<pmFiles, pmManifest, pmResult>>
svVars == <<svCurrent, svLatest, svUpdate, svCmp>>
auVars == <<auOutput, auResult>>
exVars == <<exEnv, ex>>

vars == <<pmVars, svVars, auVars, exVars, an, qa, od, ov, rk, db, im, dp>>

----------------------------------------------------------------------------
(* Generic helpers                                                         *)

RECURSIVE Flatten(_)
\* concatenation of a sequence of sequences
Flatten(ss) == IF ss = <<>> THEN <<>> ELSE Head(ss) \o Flatten(Tail(ss))

\* s.startsWith(p) on character sequences
StartsWith(s, p) == Len(s) >= Len(p) /\ SubSeq(s, 1, Len(p)) = p

Range(s) == {s[i] : i \in 1..Len(s)}

----------------------------------------------------------------------------
(* Package-manager detector                                                *)

NoLockfile == "<null>"

BUN_LOCKFILES == <<"bun.lock", "bun.lockb">>

PACKAGE_MANAGERS ==
    << [name |-> "bun",  lockfile |-> "bun.lock",
        installCommand |-> "bun install",  upgradeCommand |-> "bun update"],
       [name |-> "pnpm", lockfile |-> "pnpm-lock.yaml",
        installCommand |-> "pnpm install", upgradeCommand |-> "pnpm update"],
       [name |-> "yarn", lockfile |-> "yarn.lock",
        installCommand |-> "yarn install", upgradeCommand |-> "yarn upgrade"],
       [name |-> "npm",  lockfile |-> "package-lock.json",
        installCommand |-> "npm install",  upgradeCommand |-> "npm update"] >>

PackageManagerName == {"bun", "pnpm", "yarn", "npm"}

\* corepackSpec: string | null
NullSpec == [isNull |-> TRUE, chars |-> <<>>]
SomeSpec(cs) == [isNull |-> FALSE, chars |-> cs]

DEFAULT_PACKAGE_MANAGER ==
    [name |-> "npm", lockfile |-> NoLockfile,
     installCommand |-> "npm install", upgradeCommand |-> "npm update",
     hasMultipleLockfiles |-> FALSE, detectedLockfiles |-> <<>>,
     corepackSpec |-> NullSpec, logged |-> "info"]

\* the characters of the words the manifest field is built from
Chars(tok) ==
    CASE tok = "bun"  -> <<"b", "u", "n">>
      [] tok = "pnpm" -> <<"p", "n", "p", "m">>
      [] tok = "yarn" -> <<"y", "a", "r", "n">>
      [] tok = "npm"  -> <<"n", "p", "m">>
      [] tok = "deno" -> <<"d", "e", "n", "o">>
      [] tok = "@"    -> <<"@">>
      [] tok = "8.15.0" -> <<"8", ".", "1", "5", ".", "0">>
      [] OTHER -> <<>>

\* packageManagerField.match(/^(bun|pnpm|yarn|npm)@/)?.[1]; "<null>" when no match
parseCorepackSpec(field) ==
    LET alts == <<"bun", "pnpm", "yarn", "npm">>
        hits == SelectSeq(alts, LAMBDA n : StartsWith(field, Chars(n) \o <<"@">>))
    IN  IF hits = <<>> THEN "<null>" ELSE hits[1]

\* packageJson?.packageManager ?? null
readCorepackSpec(manifest) ==
    IF manifest.kind = "parsed" /\ manifest.hasField
    THEN SomeSpec(Flatten([i \in 1..Len(manifest.tokens) |-> Chars(manifest.tokens[i])]))
    ELSE NullSpec

\* the inner loop of detectLockfiles with every candidate pushed (no break)
LockfilesFoundNoBreak(cands, files) == SelectSeq(cands, LAMBDA f : f \in files)

\* the inner loop of detectLockfiles: the first existing candidate, then break
LockfilesFound(cands, files) ==
    LET existing == SelectSeq(cands, LAMBDA f : f \in files)
    IN  IF existing = <<>> THEN <<>> ELSE <<existing[1]>>

\* the configurations visited lowest priority first
ManagersReversed ==
    [i \in 1..Len(PACKAGE_MANAGERS) |-> PACKAGE_MANAGERS[Len(PACKAGE_MANAGERS) + 1 - i]]

\* the order in which detectLockfiles visits the configurations
ManagersInOrder == PACKAGE_MANAGERS

detectLockfiles(files) ==
    Flatten([i \in 1..Len(ManagersInOrder) |->
        LET pm == ManagersInOrder[i]
            lockfilesToCheck == IF pm.name = "bun" THEN BUN_LOCKFILES ELSE <<pm.lockfile>>
        IN  LockfilesFound(lockfilesToCheck, files)])

ConfigByName(n) == CHOOSE pm \in Range(PACKAGE_MANAGERS) : pm.name = n

\* PACKAGE_MANAGERS.find(pm => isBunLockfile ? pm.name === "bun" : pm.lockfile === primary)
ConfigsForLockfile(primary) ==
    LET isBunLockfile == primary \in Range(BUN_LOCKFILES)
    IN  SelectSeq(PACKAGE_MANAGERS,
            LAMBDA pm : IF isBunLockfile THEN pm.name = "bun" ELSE pm.lockfile = primary)

detectPackageManager(files, manifest) ==
    LET detectedLockfiles == detectLockfiles(files)
        corepackSpec == readCorepackSpec(manifest)
        \* `if (corepackSpec)`: null and the empty string are falsy
        corepackPm == IF corepackSpec.isNull \/ corepackSpec.chars = <<>>
                      THEN "<null>" ELSE parseCorepackSpec(corepackSpec.chars)
    IN  IF Len(detectedLockfiles) = 0
        THEN IF corepackPm # "<null>"
             THEN LET config == ConfigByName(corepackPm)
                  IN  [name |-> config.name, lockfile |-> NoLockfile,
                       installCommand |-> config.installCommand,
                       upgradeCommand |-> config.upgradeCommand,
                       hasMultipleLockfiles |-> FALSE, detectedLockfiles |-> <<>>,
                       corepackSpec |-> corepackSpec, logged |-> "info"]
             ELSE [DEFAULT_PACKAGE_MANAGER EXCEPT !.corepackSpec = corepackSpec]
        ELSE LET primaryLockfile == detectedLockfiles[1]
                 configs == ConfigsForLockfile(primaryLockfile)
             IN  IF configs = <<>>
                 THEN [DEFAULT_PACKAGE_MANAGER EXCEPT
                          !.detectedLockfiles = detectedLockfiles,
                          !.corepackSpec = corepackSpec, !.logged = "warn"]
                 ELSE [name |-> configs[1].name, lockfile |-> primaryLockfile,
                       installCommand |-> configs[1].installCommand,
                       upgradeCommand |-> configs[1].upgradeCommand,
                       hasMultipleLockfiles |-> Len(detectedLockfiles) > 1,
                       detectedLockfiles |-> detectedLockfiles,
                       corepackSpec |-> corepackSpec,
                       logged |-> IF Len(detectedLockfiles) > 1 THEN "warn" ELSE "info"]

\* --- inputs of the detector ---
MaxSpecTokens == 3

AllLockfiles == {"bun.lock", "bun.lockb", "pnpm-lock.yaml", "yarn.lock", "package-lock.json"}

SpecTokens == {"bun", "pnpm", "yarn", "npm", "deno", "@", "8.15.0"}

SpecTokenSeqs == UNION {[1..n -> SpecTokens] : n \in 0..MaxSpecTokens}

Manifests ==
    {[kind |-> "missing", hasField |-> FALSE, tokens |-> <<>>],
     [kind |-> "invalid", hasField |-> FALSE, tokens |-> <<>>],
     [kind |-> "parsed",  hasField |-> FALSE, tokens |-> <<>>]}
    \cup {[kind |-> "parsed", hasField |-> TRUE, tokens |-> t] : t \in SpecTokenSeqs}

PmPending == [done |-> FALSE, info |-> DEFAULT_PACKAGE_MANAGER]

PmIdle == pmFiles = {} /\ pmManifest = [kind |-> "missing", hasField |-> FALSE, tokens |-> <<>>]
          /\ pmResult = PmPending

----------------------------------------------------------------------------
(* Version comparator                                                      *)

Digits == {"0", "1", "2", "3", "4", "5", "6", "7", "8", "9"}

Letters == {"a", "b", "c", "d", "e", "f", "g", "h", "i", "j", "k", "l", "m",
            "n", "o", "p", "q", "r", "s", "t", "u", "v", "w", "x", "y", "z",
            "A", "B", "C", "D", "E", "F", "G", "H", "I", "J", "K", "L", "M",
            "N", "O", "P", "Q", "R", "S", "T", "U", "V", "W", "X", "Y", "Z"}

\* the character class [0-9A-Za-z-]
IdChars == Digits \cup Letters \cup {"-"}

DigitVal(c) ==
    CASE c = "0" -> 0 [] c = "1" -> 1 [] c = "2" -> 2 [] c = "3" -> 3 [] c = "4" -> 4
      [] c = "5" -> 5 [] c = "6" -> 6 [] c = "7" -> 7 [] c = "8" -> 8 [] c = "9" -> 9

RECURSIVE parseInt(_)
\* Number.parseInt(str, 10) on a run of decimal digits
parseInt(ds) ==
    IF ds = <<>> THEN 0
    ELSE parseInt(SubSeq(ds, 1, Len(ds) - 1)) * 10 + DigitVal(ds[Len(ds)])

\* index of the first occurrence of c in s, 0 when there is none
IndexOf(s, c) ==
    IF \E i \in 1..Len(s) : s[i] = c
    THEN CHOOSE i \in 1..Len(s) : s[i] = c /\ \A j \in 1..(i - 1) : s[j] # c
    ELSE 0

\* s.slice(i) with a 1-based index
DropTo(s, i) == SubSeq(s, i, Len(s))

\* length of the longest prefix of s made of digits
DigitPrefixLen(s) ==
    IF \E i \in 1..Len(s) : s[i] \notin Digits
    THEN (CHOOSE i \in 1..Len(s) : s[i] \notin Digits /\ \A j \in 1..(i - 1) : s[j] \in Digits) - 1
    ELSE Len(s)

\* [0-9A-Za-z-]+(?:\.[0-9A-Za-z-]+)*
IsIdentList(s) ==
    /\ s # <<>>
    /\ \A i \in 1..Len(s) : s[i] \in IdChars \cup {"."}
    /\ s[1] # "." /\ s[Len(s)] # "."
    /\ \A i \in 1..(Len(s) - 1) : ~(s[i] = "." /\ s[i + 1] = ".")

NullStr == [isNull |-> TRUE, chars |-> <<>>]
SomeStr(cs) == [isNull |-> FALSE, chars |-> cs]

InvalidSemver ==
    [valid |-> FALSE, major |-> 0, minor |-> 0, patch |-> 0,
     prerelease |-> NullStr, build |-> NullStr]

\* the part of the pattern after the patch digits: (?:-(pre))?(?:\+(build))?$
SemverTail(major, minor, patch, tail) ==
    LET plus  == IndexOf(tail, "+")
        pre   == IF tail # <<>> /\ tail[1] = "-"
                 THEN SubSeq(tail, 2, IF plus = 0 THEN Len(tail) ELSE plus - 1)
                 ELSE <<>>
        hasPre == tail # <<>> /\ tail[1] = "-"
        build == IF plus = 0 THEN <<>> ELSE DropTo(tail, plus + 1)
        shapeOk == \/ tail = <<>>
                   \/ hasPre
                   \/ (tail[1] = "+" /\ plus = 1)
    IN  IF /\ shapeOk
           /\ (hasPre => IsIdentList(pre))
           /\ (plus # 0 => IsIdentList(build))
        THEN [valid |-> TRUE, major |-> parseInt(major), minor |-> parseInt(minor),
              patch |-> parseInt(patch),
              prerelease |-> IF hasPre THEN SomeStr(pre) ELSE NullStr,
              build |-> IF plus # 0 THEN SomeStr(build) ELSE NullStr]
        ELSE InvalidSemver

\* parseSemver: strip one leading "v", then match
\* ^(\d+)\.(\d+)\.(\d+)(?:-(ids))?(?:\+(ids))?$ ; each \d+ is the whole digit run
\* because the character after it must be ".", "-", "+" or the end
parseSemver(version) ==
    LET cleaned == IF version # <<>> /\ version[1] = "v" THEN Tail(version) ELSE version
        n1    == DigitPrefixLen(cleaned)
        rest1 == DropTo(cleaned, n1 + 1)
        n2    == IF rest1 = <<>> THEN 0 ELSE DigitPrefixLen(Tail(rest1))
        rest2 == IF rest1 = <<>> THEN <<>> ELSE DropTo(Tail(rest1), n2 + 1)
        n3    == IF rest2 = <<>> THEN 0 ELSE DigitPrefixLen(Tail(rest2))
        tail  == IF rest2 = <<>> THEN <<>> ELSE DropTo(Tail(rest2), n3 + 1)
    IN  IF /\ n1 > 0 /\ rest1 # <<>> /\ rest1[1] = "."
           /\ n2 > 0 /\ rest2 # <<>> /\ rest2[1] = "."
           /\ n3 > 0
        THEN SemverTail(SubSeq(cleaned, 1, n1), SubSeq(Tail(rest1), 1, n2),
                        SubSeq(Tail(rest2), 1, n3), tail)
        ELSE InvalidSemver

UpdateType == {"major", "minor", "patch", "none"}

\* getUpdateType with the minor test not guarded by equal majors
getUpdateTypeUnguarded(current, latest) ==
    LET c == parseSemver(current)
        l == parseSemver(latest)
    IN  IF ~c.valid \/ ~l.valid THEN "none"
        ELSE IF c.major = l.major /\ c.minor = l.minor /\ c.patch = l.patch THEN "none"
        ELSE IF l.major > c.major THEN "major"
        ELSE IF l.minor > c.minor THEN "minor"
        ELSE IF l.patch > c.patch THEN "patch"
        ELSE "none"

getUpdateType(current, latest) ==
    LET c == parseSemver(current)
        l == parseSemver(latest)
    IN  IF ~c.valid \/ ~l.valid THEN "none"
        ELSE IF c.major = l.major /\ c.minor = l.minor /\ c.patch = l.patch THEN "none"
        ELSE IF l.major > c.major THEN "major"
        ELSE IF l.major = c.major /\ l.minor > c.minor THEN "minor"
        ELSE IF l.major = c.major /\ l.minor = c.minor /\ l.patch > c.patch THEN "patch"
        ELSE "none"

\* compareSemver whose patch comparison is not strict: equal versions compare as greater
compareSemverNonStrict(a, b) ==
    LET x == parseSemver(a)
        y == parseSemver(b)
    IN  IF ~x.valid \/ ~y.valid THEN 0
        ELSE IF x.major < y.major THEN -1
        ELSE IF x.major > y.major THEN 1
        ELSE IF x.minor < y.minor THEN -1
        ELSE IF x.minor > y.minor THEN 1
        ELSE IF x.patch < y.patch THEN -1
        ELSE 1

compareSemver(a, b) ==
    LET x == parseSemver(a)
        y == parseSemver(b)
    IN  IF ~x.valid \/ ~y.valid THEN 0
        ELSE IF x.major < y.major THEN -1
        ELSE IF x.major > y.major THEN 1
        ELSE IF x.minor < y.minor THEN -1
        ELSE IF x.minor > y.minor THEN 1
        ELSE IF x.patch < y.patch THEN -1
        ELSE IF x.patch > y.patch THEN 1
        ELSE 0

\* --- inputs of the comparator ---
\* Each input carries, next to its characters, what it was built from: whether it
\* is a version at all and its three numbers.  The code sees only the characters.
MaxComponent == 1

RECURSIVE Decimal(_)
\* the decimal digits of a natural number
Decimal(n) ==
    LET d == <<"0", "1", "2", "3", "4", "5", "6", "7", "8", "9">>
    IN  IF n < 10 THEN <<d[n + 1]>> ELSE Decimal(n \div 10) \o <<d[(n % 10) + 1]>>

VersionPrefixes == {<<>>, <<"v">>}

VersionSuffixes ==
    {<<>>,
     <<"-", "r", "c", ".", "1">>,
     <<"+", "b", "7">>,
     <<"-", "r", "c", "-", "x", "+", "b", ".", "7">>}

Built(prefix, ma, mi, pa, suffix) ==
    [chars |-> prefix \o Decimal(ma) \o <<".">> \o Decimal(mi) \o <<".">> \o Decimal(pa) \o suffix,
     valid |-> TRUE, major |-> ma, minor |-> mi, patch |-> pa]

NotAVersion(cs) == [chars |-> cs, valid |-> FALSE, major |-> 0, minor |-> 0, patch |-> 0]

GeneratedVersions ==
    {Built(p, ma, mi, pa, sfx) :
        p \in VersionPrefixes, ma \in 0..MaxComponent, mi \in 0..MaxComponent,
        pa \in 0..MaxComponent, sfx \in VersionSuffixes}

\* multi-digit and zero-padded numbers
WideVersions ==
    {Built(<<>>, 10, 0, 0, <<>>), Built(<<>>, 9, 12, 3, <<>>), Built(<<"v">>, 9, 2, 30, <<>>),
     [chars |-> <<"0", "1", ".", "0", "0", ".", "0", "7">>,
      valid |-> TRUE, major |-> 1, minor |-> 0, patch |-> 7]}

MalformedVersions ==
    {NotAVersion(<<>>),
     NotAVersion(<<"1", ".", "0">>),
     NotAVersion(<<"1", ".", "0", ".", "0", ".", "0">>),
     NotAVersion(<<"a", ".", "b", ".", "c">>),
     NotAVersion(<<"1", ".", "x", ".", "0">>),
     NotAVersion(<<"1", ".", "0", ".", "0", "-">>),
     NotAVersion(<<"1", ".", "0", ".", "0", "+">>),
     NotAVersion(<<"1", ".", "0", ".", "0", "-", "a", ".", ".", "b">>),
     NotAVersion(<<"1", ".", "0", ".", "0", "+", "a", "+", "b">>),
     NotAVersion(<<"1", ".", "0", ".", "0", "r", "c">>),
     NotAVersion(<<"v", "v", "1", ".", "0", ".", "0">>),
     NotAVersion(<<"V", "1", ".", "0", ".", "0">>),
     NotAVersion(<<" ", "1", ".", "0", ".", "0">>),
     NotAVersion(<<"1", ".", "0", ".", "0", "-", "a", "_", "b">>),
     NotAVersion(<<".", "0", ".", "0">>),
     NotAVersion(<<"l", "a", "t", "e", "s", "t">>)}

VersionInputs == GeneratedVersions \cup WideVersions \cup MalformedVersions

SvPendingCmp == [done |-> FALSE, ab |-> 0, ba |-> 0, aa |-> 0]

SvIdle == /\ svCurrent = NotAVersion(<<>>) /\ svLatest = NotAVersion(<<>>)
          /\ svUpdate = "pending" /\ svCmp = SvPendingCmp

----------------------------------------------------------------------------
(* Audit-output normalizer                                                 *)
(*                                                                         *)
(* Raw output is a sequence of JSON values.  shape "pretty" is one value   *)
(* printed over several lines (JSON.parse of the whole text succeeds, no   *)
(* single line parses); shape "ndjson" is one value or non-JSON text per   *)
(* line; shape "empty" is the empty string and shape "blank" is white      *)
(* space only: both trim to the empty string, only "empty" is falsy.       *)

Absent == -1    \* a count that is missing from the JSON (undefined)

NoCounts == [present |-> FALSE, info |-> Absent, low |-> Absent, moderate |-> Absent,
             high |-> Absent, critical |-> Absent, total |-> Absent]

NoAdvisory == [module_name |-> "", severity |-> "", title |-> "",
               patched_versions |-> <<>>, paths |-> <<>>]

\* an object with none of the fields the parsers read; also stands for a scalar
EmptyObj == [json |-> TRUE, type |-> "none", hasError |-> FALSE, meta |-> NoCounts,
             vulns |-> <<>>, advisories |-> <<>>, adv |-> NoAdvisory, sum |-> NoCounts]

\* a line that is not JSON
TextLine == [EmptyObj EXCEPT !.json = FALSE]

Blank == [shape |-> "blank", values |-> <<>>]

EmptyOut == [shape |-> "empty", values |-> <<>>]

\* !output.trim()
TrimsToEmpty(out) == out.shape \in {"blank", "empty"}

\* stdout || stderr
FirstTruthy(stdout, stderr) == IF stdout.shape = "empty" THEN stderr ELSE stdout

\* JSON.parse(output): the value, or ok = FALSE when it throws
JsonParse(out) ==
    IF out.shape = "pretty" THEN [ok |-> TRUE, val |-> out.values[1]]
    ELSE IF out.shape = "ndjson" /\ Len(out.values) = 1 /\ out.values[1].json
         THEN [ok |-> TRUE, val |-> out.values[1]]
    ELSE [ok |-> FALSE, val |-> EmptyObj]

\* output.trim().split("\n") followed by JSON.parse of each line
JsonLines(out) ==
    IF out.shape = "pretty" THEN <<TextLine, TextLine>> ELSE out.values

\* x ?? 0
OrZero(x) == IF x = Absent THEN 0 ELSE x

\* severity.toLowerCase() on the spellings package managers emit
ToLowerCase(str) ==
    CASE str = "CRITICAL" -> "critical" [] str = "High" -> "high"
      [] str = "Moderate" -> "moderate" [] str = "MEDIUM" -> "medium"
      [] str = "Low" -> "low" [] OTHER -> str

normalizeSeverity(severity) ==
    LET sv == ToLowerCase(severity)
    IN  IF sv = "critical" THEN "critical"
        ELSE IF sv = "high" THEN "high"
        ELSE IF sv = "moderate" \/ sv = "medium" THEN "moderate"
        ELSE IF sv = "low" THEN "low"
        ELSE "info"

\* fixAvailable is false, true, or an object with or without a version
\* a fix version reported whenever a fix is available
extractNpmFixVersionWhenAvailable(fixAvailable) ==
    IF fixAvailable.kind # "false" THEN SomeStr(fixAvailable.version) ELSE NullStr

extractNpmFixVersion(fixAvailable) ==
    IF fixAvailable.kind = "object" /\ fixAvailable.version # <<>>
    THEN SomeStr(fixAvailable.version) ELSE NullStr

extractNpmTitle(via) ==
    LET titled == SelectSeq(via, LAMBDA v : ~v.isString /\ v.title # "")
    IN  IF titled = <<>> THEN "Unknown vulnerability" ELSE titled[1].title

\* allVulns[name]: the entry stored under a key, <<>> when there is none
LookupVuln(allVulns, name) == SelectSeq(allVulns, LAMBDA v : v.name = name)

Reverse(sq) == [i \in 1..Len(sq) |-> sq[Len(sq) + 1 - i]]

RECURSIVE Join(_, _)
\* parts.join(sep), kept as the sequence of parts and separators
Join(parts, sep) ==
    IF parts = <<>> THEN <<>>
    ELSE IF Len(parts) = 1 THEN parts
    ELSE <<parts[1], sep>> \o Join(Tail(parts), sep)

RECURSIVE buildPathRecursive(_, _, _)
\* returns the parts and the visited set after the call
buildPathRecursive(name, visited, allVulns) ==
    IF name \in visited THEN [parts |-> <<name>>, visited |-> visited]
    ELSE LET found == LookupVuln(allVulns, name)
             seen  == visited \cup {name}
         IN  IF found = <<>> THEN [parts |-> <<name>>, visited |-> seen]
             ELSE IF Len(found[1].effects) > 0
                  THEN LET parent == buildPathRecursive(found[1].effects[1], seen, allVulns)
                       IN  [parts |-> parent.parts \o <<name>>, visited |-> parent.visited]
                  ELSE [parts |-> <<name>>, visited |-> seen]

RECURSIVE WalkEffects(_, _, _)
\* the walk through the first effects that stops after a number of steps
\* and keeps no visited set
WalkEffects(name, steps, allVulns) ==
    LET found == LookupVuln(allVulns, name)
    IN  IF steps = 0 \/ found = <<>> \/ Len(found[1].effects) = 0 THEN <<name>>
        ELSE WalkEffects(found[1].effects[1], steps - 1, allVulns) \o <<name>>

\* a path builder bounded by depth instead of by the names it has seen
buildNpmPathDepthCapped(vuln, allVulns) ==
    IF Len(vuln.effects) > 0
    THEN Join(Reverse(WalkEffects(vuln.name, 2 * Len(allVulns), allVulns)), " > ")
    ELSE Join(<<vuln.name>>, " > ")

\* the dependency path of an npm vulnerability, root first
buildNpmPath(vuln, allVulns) ==
    IF Len(vuln.effects) > 0
    THEN Join(Reverse(buildPathRecursive(vuln.name, {}, allVulns).parts), " > ")
    ELSE Join(<<vuln.name>>, " > ")

NullAudit == [isNull |-> TRUE, vulnerabilities |-> <<>>,
              summary |-> [critical |-> 0, high |-> 0, moderate |-> 0, low |-> 0, total |-> 0]]

SomeAudit(vs, sm) == [isNull |-> FALSE, vulnerabilities |-> vs, summary |-> sm]

\* the skip test without the length check
IsPassThroughAnyString(vuln) == \E i \in 1..Len(vuln.via) : vuln.via[i].isString

\* the entries parseNpmAudit skips: via.some(string) && via.length === 1
IsPassThrough(vuln) ==
    (\E i \in 1..Len(vuln.via) : vuln.via[i].isString) /\ Len(vuln.via) = 1

NpmVulnerability(vuln, vulns) ==
    [package |-> vuln.name,
     severity |-> normalizeSeverity(vuln.severity),
     title |-> extractNpmTitle(vuln.via),
     path |-> buildNpmPath(vuln, vulns),
     fixAvailable |-> vuln.fixAvailable.kind # "false",
     fixVersion |-> extractNpmFixVersion(vuln.fixAvailable)]

parseNpmAudit(out) ==
    IF TrimsToEmpty(out) THEN NullAudit
    ELSE LET parsed == JsonParse(out)
             meta   == parsed.val.meta
             vulns  == parsed.val.vulns
             kept   == SelectSeq(vulns, LAMBDA v : ~IsPassThrough(v))
         IN  IF ~parsed.ok \/ ~meta.present THEN NullAudit
             ELSE SomeAudit([i \in 1..Len(kept) |-> NpmVulnerability(kept[i], vulns)],
                            [critical |-> OrZero(meta.critical), high |-> OrZero(meta.high),
                             moderate |-> OrZero(meta.moderate), low |-> OrZero(meta.low),
                             total |-> OrZero(meta.total)])

\* start of the leftmost match of /(\d+\.\d+\.\d+)/ at or after position i, 0 if none
VersionMatchLen(str, i) ==
    LET n1 == DigitPrefixLen(DropTo(str, i))
        r1 == DropTo(str, i + n1)
        n2 == IF r1 = <<>> THEN 0 ELSE DigitPrefixLen(Tail(r1))
        r2 == IF r1 = <<>> THEN <<>> ELSE DropTo(Tail(r1), n2 + 1)
        n3 == IF r2 = <<>> THEN 0 ELSE DigitPrefixLen(Tail(r2))
    IN  IF /\ n1 > 0 /\ r1 # <<>> /\ r1[1] = "." /\ n2 > 0
           /\ r2 # <<>> /\ r2[1] = "." /\ n3 > 0
        THEN n1 + 1 + n2 + 1 + n3 ELSE 0

\* patched_versions.match(/(\d+\.\d+\.\d+)/)?.[1], unless empty or the "<0.0.0" sentinel
ExtractPatchedVersion(patched) ==
    IF patched = <<>> \/ patched = <<"<", "0", ".", "0", ".", "0">> THEN NullStr
    ELSE LET starts == {i \in 1..Len(patched) : VersionMatchLen(patched, i) > 0}
         IN  IF starts = {} THEN NullStr
             ELSE LET i == CHOOSE k \in starts : \A j \in starts : k <= j
                  IN  SomeStr(SubSeq(patched, i, i + VersionMatchLen(patched, i) - 1))

\* path.replace(/>/g, " > ") on a path kept as its segments
SpacePath(segments) == Join(segments, " > ")

AdvisoryVulnerability(advisory, path) ==
    LET fixVersion == ExtractPatchedVersion(advisory.patched_versions)
    IN  [package |-> advisory.module_name,
         severity |-> normalizeSeverity(advisory.severity),
         title |-> advisory.title,
         path |-> SpacePath(path),
         fixAvailable |-> ~fixVersion.isNull,
         fixVersion |-> fixVersion]

\* the summary pnpm and yarn build from metadata without an explicit total
SummedSummary(meta) ==
    [critical |-> OrZero(meta.critical), high |-> OrZero(meta.high),
     moderate |-> OrZero(meta.moderate), low |-> OrZero(meta.low),
     total |-> OrZero(meta.critical) + OrZero(meta.high) + OrZero(meta.moderate)
               + OrZero(meta.low) + OrZero(meta.info)]

\* parsePnpmAudit without the test of data.error
parsePnpmAuditIgnoringError(out) ==
    IF TrimsToEmpty(out) THEN NullAudit
    ELSE LET parsed == JsonParse(out)
             data   == parsed.val
         IN  IF ~parsed.ok \/ ~data.meta.present THEN NullAudit
             ELSE SomeAudit(
                    [i \in 1..Len(data.advisories) |->
                        LET a == data.advisories[i]
                        IN  AdvisoryVulnerability(a,
                               IF a.paths = <<>> THEN <<a.module_name>> ELSE a.paths[1])],
                    SummedSummary(data.meta))

parsePnpmAudit(out) ==
    IF TrimsToEmpty(out) THEN NullAudit
    ELSE LET parsed == JsonParse(out)
             data   == parsed.val
         IN  IF ~parsed.ok \/ data.hasError \/ ~data.meta.present THEN NullAudit
             ELSE SomeAudit(
                    [i \in 1..Len(data.advisories) |->
                        LET a == data.advisories[i]
                        IN  AdvisoryVulnerability(a,
                               IF a.paths = <<>> THEN <<a.module_name>> ELSE a.paths[1])],
                    SummedSummary(data.meta))

\* a bucket that counts every vulnerability whatever its severity
CountSeverityAny(vs, sev) == Len(vs)

CountSeverity(vs, sev) == Len(SelectSeq(vs, LAMBDA v : v.severity = sev))

parseYarnAudit(out) ==
    IF TrimsToEmpty(out) THEN NullAudit
    ELSE LET lines      == JsonLines(out)
             advisories == SelectSeq(lines, LAMBDA l : l.json /\ l.type = "auditAdvisory")
             summaries  == SelectSeq(lines, LAMBDA l : l.json /\ l.type = "auditSummary")
             vs         == [i \in 1..Len(advisories) |->
                               AdvisoryVulnerability(advisories[i].adv, advisories[i].adv.paths[1])]
         IN  IF summaries # <<>>
             THEN SomeAudit(vs, SummedSummary(summaries[Len(summaries)].sum))
             ELSE IF vs = <<>> THEN NullAudit
             ELSE SomeAudit(vs,
                    [critical |-> CountSeverity(vs, "critical"), high |-> CountSeverity(vs, "high"),
                     moderate |-> CountSeverity(vs, "moderate"), low |-> CountSeverity(vs, "low"),
                     total |-> Len(vs)])

parseAuditOutput(pm, out) ==
    IF pm = "npm" \/ pm = "bun" THEN parseNpmAudit(out)
    ELSE IF pm = "pnpm" THEN parsePnpmAudit(out)
    ELSE parseYarnAudit(out)

\* --- inputs of the audit parsers ---
MaxEffects == 1     \* longest effects array
MaxCount == 1       \* largest severity count in metadata
MaxLines == 3       \* longest yarn NDJSON stream

PackageNames == {"a", "b", "c"}
UnlistedName == "z"     \* a package named in effects that has no entry of its own

EffectsChoices == UNION {[1..n -> PackageNames \cup {UnlistedName}] : n \in 0..MaxEffects}

ViaString == [isString |-> TRUE, title |-> ""]
ViaAdvisory == [isString |-> FALSE, title |-> "Prototype Pollution"]
ViaUntitled == [isString |-> FALSE, title |-> ""]

ViaChoices ==
    {<<>>, <<ViaAdvisory>>, <<ViaString>>, <<ViaString, ViaAdvisory>>, <<ViaString, ViaString>>,
     <<ViaUntitled>>}

FixChoices ==
    {[kind |-> "false", version |-> <<>>],
     [kind |-> "true", version |-> <<>>],
     [kind |-> "object", version |-> <<"5", ".", "0", ".", "0">>],
     [kind |-> "object", version |-> <<>>]}

NpmEntry(n, sev, via, effects, fix) ==
    [name |-> n, severity |-> sev, via |-> via, effects |-> effects, fixAvailable |-> fix]

ConsistentMeta == [present |-> TRUE, info |-> 0, low |-> 0, moderate |-> 1,
                   high |-> 1, critical |-> 0, total |-> 2]

\* npm reports over the three packages with every effects graph
NpmGraphReports ==
    {[shape |-> "pretty",
      values |-> <<[EmptyObj EXCEPT
                      !.meta = ConsistentMeta,
                      !.vulns = <<NpmEntry("a", "high", via, ea, fix),
                                  NpmEntry("b", "moderate", <<ViaAdvisory>>, eb,
                                           [kind |-> "false", version |-> <<>>]),
                                  NpmEntry("c", "High", <<ViaString>>, ec,
                                           [kind |-> "true", version |-> <<>>])>>]>>] :
        via \in ViaChoices, fix \in FixChoices,
        ea \in EffectsChoices, eb \in EffectsChoices, ec \in EffectsChoices}

CountValues == {Absent} \cup (0..MaxCount)

MetaChoices ==
    {[present |-> TRUE, info |-> i, low |-> l, moderate |-> m, high |-> h,
      critical |-> c, total |-> t] :
        i \in CountValues, l \in CountValues, m \in CountValues,
        h \in CountValues, c \in CountValues, t \in CountValues}

AdvisoryChoices ==
    {[module_name |-> "a", severity |-> "critical", title |-> "RCE",
      patched_versions |-> <<">", "=", "2", ".", "0", ".", "1">>, paths |-> <<<<"c", "b", "a">>>>],
     [module_name |-> "b", severity |-> "MEDIUM", title |-> "ReDoS",
      patched_versions |-> <<"<", "0", ".", "0", ".", "0">>, paths |-> <<<<"b">>>>],
     [module_name |-> "c", severity |-> "info", title |-> "Notice",
      patched_versions |-> <<>>, paths |-> <<<<"a", "c">>, <<"c">>>>],
     [module_name |-> "a", severity |-> "low", title |-> "Leak",
      patched_versions |-> <<"*">>, paths |-> <<<<"a">>>>]}

\* npm / pnpm reports with every metadata block, with or without an error field
CountReports ==
    {[shape |-> sh,
      values |-> <<[EmptyObj EXCEPT !.meta = mt, !.hasError = err, !.advisories = advs]>>] :
        sh \in {"pretty", "ndjson"}, mt \in MetaChoices \cup {NoCounts}, err \in BOOLEAN,
        advs \in {<<>>} \cup {<<a>> : a \in AdvisoryChoices}}

YarnAdvisoryLine(a) == [EmptyObj EXCEPT !.type = "auditAdvisory", !.adv = a]
YarnSummaryLine(mt) == [EmptyObj EXCEPT !.type = "auditSummary", !.sum = mt]

YarnLineChoices ==
    {TextLine, [EmptyObj EXCEPT !.type = "info"]}
    \cup {YarnAdvisoryLine([a EXCEPT !.paths = <<a.paths[1]>>]) : a \in AdvisoryChoices}
    \cup {YarnSummaryLine(ConsistentMeta),
          YarnSummaryLine([ConsistentMeta EXCEPT !.info = MaxCount, !.total = Absent]),
          YarnSummaryLine([NoCounts EXCEPT !.present = TRUE])}

YarnStreams ==
    {[shape |-> "ndjson", values |-> ls] :
        ls \in UNION {[1..n -> YarnLineChoices] : n \in 1..MaxLines}}

AuditOutputs == {Blank, EmptyOut} \cup NpmGraphReports \cup CountReports \cup YarnStreams

AuPending == [parser |-> "none", res |-> NullAudit]

AuIdle == auOutput = Blank /\ auResult = AuPending

----------------------------------------------------------------------------
(* Command executor                                                        *)
(*                                                                         *)
(* One call of exec.  Each action is one turn of the event loop (the       *)
(* synchronous start of the call, an I/O completion, the timer callback)   *)
(* together with the promise reactions it triggers: reactions run before   *)
(* the next timer or I/O callback, so nothing interleaves with them.       *)

NoError == [kind |-> "none", hasCause |-> FALSE]

NoExecResult == [stdout |-> EmptyOut, stderr |-> EmptyOut, exitCode |-> 0]

\* some text that is not JSON
TextOut == [shape |-> "ndjson", values |-> <<TextLine>>]

ExNotCalled ==
    [phase   |-> "none",      \* none, called, racing (awaiting the race), returned, threw
     child   |-> "none",      \* none, running, exited
     killed  |-> FALSE,       \* proc.kill() has been called
     inner   |-> "none",      \* the async reader: stdout, stderr, exited, done, rejected
     timer   |-> "unset",     \* unset, armed, fired, cleared
     race    |-> "pending",   \* pending, fulfilled, rejected
     settled |-> 0,           \* how many times the promise of exec was settled
     result  |-> NoExecResult,
     error   |-> NoError]

\* exec has just been called
ExCalled == [ExNotCalled EXCEPT !.phase = "called"]

\* the finally block with the clearTimeout call left out
TimerLeftAlone(timer) == timer

\* finally { if (timeoutId) clearTimeout(timeoutId) }
TimerAfterFinally(timer) == IF timer = "armed" THEN "cleared" ELSE timer

\* catch (error): rethrow when the message includes "timed out", wrap otherwise
CaughtError(isTimeoutError, messageHasTimedOut) ==
    IF isTimeoutError THEN [kind |-> "timeout", hasCause |-> FALSE]
    ELSE IF messageHasTimedOut THEN [kind |-> "rethrown", hasCause |-> FALSE]
    ELSE [kind |-> "failed", hasCause |-> TRUE]

\* --- inputs of the executor ---
MaxExitCode == 2

ExecEnvs ==
    [spawnOk : BOOLEAN, exitCode : 0..MaxExitCode,
     stdout : {EmptyOut, TextOut}, stderr : {EmptyOut, TextOut}]

ExIdle == exEnv = [spawnOk |-> TRUE, exitCode |-> 0, stdout |-> EmptyOut, stderr |-> EmptyOut]
          /\ ex = ExNotCalled

----------------------------------------------------------------------------
(* Dependency and audit analyzers                                          *)
(*                                                                         *)
(* The report of an outdated command is a document of shape "table": the   *)
(* format it is written in and its entries (npm, pnpm) or lines (yarn,     *)
(* bun). A JSON value that is not an object is a document of shape         *)
(* "scalar". A cell is a string (its characters) or one of two values that *)
(* are not strings.                                                        *)

JsUndefined == <<"<undefined>">>
JsNumber == <<"<number>">>

IsJsString(v) == v \notin {JsUndefined, JsNumber}

\* `name && current && latest`: undefined and "" are falsy
Truthy(v) == v # JsUndefined /\ v # <<>>

OutdatedRow(n, cur, lat, depType) ==
    [name |-> n, current |-> cur, latest |-> lat, dependencyType |-> depType]

OutdatedPackage(row, isDev) ==
    [name |-> row.name, current |-> row.current, latest |-> row.latest,
     updateType |-> getUpdateType(row.current, row.latest), isDevDep |-> isDev]

\* version.replace(...) in parseSemver is a TypeError on a value that is no string
SemverThrows(row) == ~IsJsString(row.current) \/ ~IsJsString(row.latest)

Returned(packages) == [threw |-> FALSE, packages |-> packages]
Thrown == [threw |-> TRUE, packages |-> <<>>]

\* try { body } catch (error) { throw error }
CatchRethrows(body) == body

\* try { body } catch { return [] }
CatchReturnsEmpty(body) == IF body.threw THEN Returned(<<>>) ELSE body

\* JSON.parse and the loop over Object.entries(data) of the npm and pnpm parsers
JsonEntriesBody(out, devFromType) ==
    IF out.shape = "scalar"
    THEN (IF out.kind \in {"null", "string"} THEN Thrown ELSE Returned(<<>>))
    ELSE IF out.shape = "table" /\ out.fmt \in {"npm", "pnpm"}
    THEN (IF \E i \in 1..Len(out.values) : SemverThrows(out.values[i])
          THEN Thrown
          ELSE Returned([i \in 1..Len(out.values) |->
                           OutdatedPackage(out.values[i],
                                           devFromType /\ out.values[i].dependencyType
                                                            = "devDependencies")]))
    ELSE Thrown

\* JSON object keyed by package name; isDevDep is always false
parseNpmOutdated(out) ==
    IF TrimsToEmpty(out) THEN Returned(<<>>)
    ELSE CatchReturnsEmpty(JsonEntriesBody(out, FALSE))

parsePnpmOutdated(out) ==
    IF TrimsToEmpty(out) THEN Returned(<<>>)
    ELSE CatchReturnsEmpty(JsonEntriesBody(out, TRUE))

YarnRequiredColumns == {"Package", "Current", "Latest"}

\* the rows one line of the yarn stream adds before its try block ends
YarnLinePackages(line) ==
    IF line.kind # "table" \/ ~line.hasData \/ ~(YarnRequiredColumns \subseteq Range(line.head))
    THEN <<>>
    ELSE LET usable == SelectSeq(line.body, LAMBDA r : r.name # "" /\ Truthy(r.current)
                                                        /\ Truthy(r.latest))
             bad    == {i \in 1..Len(usable) : SemverThrows(usable[i])}
             kept   == IF bad = {} THEN usable
                       ELSE SubSeq(usable, 1, (CHOOSE i \in bad : \A j \in bad : i <= j) - 1)
         IN  [i \in 1..Len(kept) |->
                 OutdatedPackage(kept[i],
                                 "Package Type" \in Range(line.head)
                                     /\ kept[i].dependencyType = "devDependencies")]

\* NDJSON, each line in its own try block
parseYarnOutdated(out) ==
    IF TrimsToEmpty(out) THEN Returned(<<>>)
    ELSE IF out.shape = "table" /\ out.fmt = "yarn"
    THEN Returned(Flatten([i \in 1..Len(out.values) |-> YarnLinePackages(out.values[i])]))
    ELSE Returned(<<>>)

\* the data rows of the bun table: lines with "|", without "Package" or "---",
\* with four cells or more and a name left after "(dev)" is removed
BunDataRows(out) ==
    IF out.shape = "table" /\ out.fmt = "bun"
    THEN SelectSeq(out.values, LAMBDA l : l.kind = "row" /\ l.name # "")
    ELSE <<>>

\* ASCII table; "(dev)" in the name cell marks a dev dependency; no try block
parseBunOutdated(out) ==
    IF \E i \in 1..Len(BunDataRows(out)) : SemverThrows(BunDataRows(out)[i])
    THEN Thrown
    ELSE Returned([i \in 1..Len(BunDataRows(out)) |->
                     OutdatedPackage(BunDataRows(out)[i], BunDataRows(out)[i].dev)])

parseOutdatedOutput(pm, out) ==
    IF pm = "npm" THEN parseNpmOutdated(out)
    ELSE IF pm = "pnpm" THEN parsePnpmOutdated(out)
    ELSE IF pm = "yarn" THEN parseYarnOutdated(out)
    ELSE parseBunOutdated(out)

\* SecuritySummary | null of the deps analyzer
NullSecurity == [isNull |-> TRUE, critical |-> 0, high |-> 0, moderate |-> 0, low |-> 0]

SecuritySummary(meta) ==
    [isNull |-> FALSE, critical |-> OrZero(meta.critical), high |-> OrZero(meta.high),
     moderate |-> OrZero(meta.moderate), low |-> OrZero(meta.low)]

depsParseNpmAudit(out) ==
    IF TrimsToEmpty(out) THEN NullSecurity
    ELSE LET parsed == JsonParse(out)
         IN  IF ~parsed.ok \/ ~parsed.val.meta.present THEN NullSecurity
             ELSE SecuritySummary(parsed.val.meta)

depsParsePnpmAudit(out) ==
    IF TrimsToEmpty(out) THEN NullSecurity
    ELSE LET parsed == JsonParse(out)
         IN  IF ~parsed.ok \/ parsed.val.hasError \/ ~parsed.val.meta.present
             THEN NullSecurity
             ELSE SecuritySummary(parsed.val.meta)

\* the first auditSummary line decides
depsParseYarnAudit(out) ==
    IF TrimsToEmpty(out) THEN NullSecurity
    ELSE LET summaries == SelectSeq(JsonLines(out),
                                    LAMBDA l : l.json /\ l.type = "auditSummary")
         IN  IF summaries = <<>> THEN NullSecurity
             ELSE SecuritySummary(summaries[1].sum)

depsParseAuditOutput(pm, out) ==
    IF pm = "npm" \/ pm = "bun" THEN depsParseNpmAudit(out)
    ELSE IF pm = "pnpm" THEN depsParsePnpmAudit(out)
    ELSE depsParseYarnAudit(out)

CountUpdateType(packages, t) == Len(SelectSeq(packages, LAMBDA q : q.updateType = t))

\* the DepsAnalysis built at the end of analyzeDeps
DepsAnalysis(total, packages, security) ==
    [total |-> total, outdated |-> Len(packages),
     major |-> CountUpdateType(packages, "major"),
     minor |-> CountUpdateType(packages, "minor"),
     patch |-> CountUpdateType(packages, "patch"),
     security |-> security, packages |-> packages]

EmptyDeps == DepsAnalysis(0, <<>>, NullSecurity)

\* the result analyzeAudit returns when the parser returns null
EmptyAudit == [NullAudit EXCEPT !.isNull = FALSE]

\* --- inputs of the analyzers ---
MaxDeps == 2        \* most entries in dependencies + devDependencies of the manifest

V(ma, mi, pa) == Decimal(ma) \o <<".">> \o Decimal(mi) \o <<".">> \o Decimal(pa)

SampleRows ==
    <<OutdatedRow("lodash", V(4, 17, 20), V(4, 17, 21), "dependencies"),
      OutdatedRow("typescript", V(5, 0, 0), V(5, 3, 0), "devDependencies"),
      OutdatedRow("fsevents", V(1, 0, 0), V(2, 0, 0), "optionalDependencies")>>

YarnTableLine(head, body) == [kind |-> "table", hasData |-> TRUE, head |-> head, body |-> body]

YarnFullHead == <<"Package", "Current", "Wanted", "Latest", "Package Type", "URL">>

BunHeaderLine == [kind |-> "header", name |-> "", current |-> <<>>, latest |-> <<>>, dev |-> FALSE]
BunSeparatorLine == [BunHeaderLine EXCEPT !.kind = "separator"]

BunRowLine(row) ==
    [kind |-> "row", name |-> row.name, current |-> row.current, latest |-> row.latest,
     dev |-> row.dependencyType = "devDependencies"]

\* a report of the given rows as the manager writes it
OutdatedReport(pm, rows) ==
    [shape |-> "table", fmt |-> pm,
     values |-> IF pm = "yarn" THEN <<YarnTableLine(YarnFullHead, rows)>>
                ELSE IF pm = "bun"
                THEN <<BunHeaderLine, BunSeparatorLine>>
                         \o [i \in 1..Len(rows) |-> BunRowLine(rows[i])]
                ELSE rows]

\* what an outdated command can print: nothing, text, or a report of 1 to 3 rows
OutdatedOutputs(pm) ==
    {EmptyOut, TextOut} \cup {OutdatedReport(pm, SubSeq(SampleRows, 1, n)) : n \in 1..3}

SampleAuditReport ==
    [shape |-> "pretty",
     values |-> <<[EmptyObj EXCEPT
                     !.meta = ConsistentMeta,
                     !.vulns = <<NpmEntry("a", "high", <<ViaAdvisory>>, <<>>,
                                          [kind |-> "true", version |-> <<>>])>>,
                     !.advisories = <<CHOOSE a \in AdvisoryChoices : a.title = "RCE">>]>>]

\* what an audit command can print
AnalyzerAuditOutputs ==
    {EmptyOut, TextOut, SampleAuditReport,
     [shape |-> "ndjson",
      values |-> <<YarnAdvisoryLine([module_name |-> "a", severity |-> "high", title |-> "XSS",
                                     patched_versions |-> <<>>, paths |-> <<<<"a">>>>]),
                   YarnSummaryLine(ConsistentMeta)>>]}

\* the operating system's side of one command run by an analyzer
CommandEnvs(outputs) ==
    [spawnOk : BOOLEAN, exitCode : {0, 1}, stdout : outputs, stderr : {EmptyOut, TextOut}]

AnalyzerProjects == {{}, {"bun.lock"}, {"pnpm-lock.yaml"}, {"yarn.lock"}, {"package-lock.json"}}

AnNotCalled ==
    [which |-> "none",            \* deps or audit
     includeSecurity |-> FALSE,
     manifestDeps |-> 0,          \* what countTotalDependencies finds
     phase |-> "none",            \* called, outdated, audit, returned, threw
     pm |-> "npm",
     runs |-> [outdated |-> 0, audit |-> 0],   \* calls of exec per command
     packages |-> <<>>,
     total |-> 0,
     deps |-> EmptyDeps,          \* result of analyzeDeps
     audit |-> NullAudit,         \* result of analyzeAudit
     error |-> NoError]

AnIdle == an = AnNotCalled

\* --- inputs of the outdated normalizers ---
MaxRows == 2         \* most entries of a report, rows of a table
MaxNoise == 1        \* most lines around the table of a yarn stream

RowChoices ==
    {OutdatedRow("a", V(1, 0, 0), V(2, 0, 0), "dependencies"),
     OutdatedRow("b", V(1, 0, 0), V(1, 1, 0), "devDependencies"),
     OutdatedRow("c", <<"x">>, V(1, 0, 0), "dependencies"),
     OutdatedRow("d", JsUndefined, V(2, 0, 0), "dependencies"),
     OutdatedRow("e", JsNumber, JsNumber, "dependencies")}

RowSeqs == UNION {[1..n -> RowChoices] : n \in 0..MaxRows}

\* JSON values that are not objects
ScalarOutputs == {[shape |-> "scalar", kind |-> k] : k \in {"null", "number", "string", "array"}}

JsonTables == {[shape |-> "table", fmt |-> "npm", values |-> rows] : rows \in RowSeqs}

YarnNoiseLines ==
    {[kind |-> k, hasData |-> FALSE, head |-> <<>>, body |-> <<>>] :
        k \in {"text", "info", "table"}}

YarnNoise == UNION {[1..n -> YarnNoiseLines] : n \in 0..MaxNoise}

YarnHeads == {YarnFullHead, <<"Package", "Current", "Latest">>, <<"Package", "Current">>}

YarnTables ==
    {[shape |-> "table", fmt |-> "yarn", values |-> before \o <<YarnTableLine(h, rows)>> \o after] :
        before \in YarnNoise, after \in YarnNoise, h \in YarnHeads, rows \in RowSeqs}

BunLineChoices ==
    {BunHeaderLine, BunSeparatorLine,
     [BunHeaderLine EXCEPT !.kind = "text"],       \* no "|" in the line
     [BunHeaderLine EXCEPT !.kind = "short"],      \* fewer than four cells
     [BunHeaderLine EXCEPT !.kind = "row", !.current = V(1, 0, 0), !.latest = V(2, 0, 0),
                           !.dev = TRUE]}          \* the name cell is "(dev)" alone
    \cup {BunRowLine(r) : r \in {x \in RowChoices : ~SemverThrows(x)}}

BunTables ==
    {[shape |-> "table", fmt |-> "bun", values |-> ls] :
        ls \in UNION {[1..n -> BunLineChoices] : n \in 0..MaxRows}}

OutdatedInputs ==
    {EmptyOut, Blank, TextOut} \cup ScalarOutputs \cup JsonTables \cup YarnTables \cup BunTables

OdPending == [pm |-> "npm", output |-> EmptyOut, done |-> FALSE, result |-> Returned(<<>>)]

OdIdle == od = OdPending

----------------------------------------------------------------------------
(* Quality scorer                                                          *)
(*                                                                         *)
(* A details string is the sequence of its pieces; includes() looks for a  *)
(* piece.                                                                  *)

Includes(details, piece) == \E i \in 1..Len(details) : details[i] = piece

\* Math.round(n / d) for d > 0: floor(n / d + 1/2)
Round(n, d) == (2 * n + d) \div (2 * d)

MathMax(a, b) == IF a >= b THEN a ELSE b

JoinParts(parts) ==
    Flatten([i \in 1..Len(parts) |-> IF i = 1 THEN parts[i] ELSE <<", ">> \o parts[i]])

WEIGHTS ==
    [dependencyFreshness |-> 20, security |-> 25, testCoverage |-> 20,
     typescriptStrictness |-> 10, linting |-> 10, deadCode |-> 15]

MetricNames == DOMAIN WEIGHTS

MetricBreakdown(score, weight, details) ==
    [score |-> score, weight |-> weight, details |-> details]

\* the grade scale with each threshold belonging to the grade below
getGradeExclusive(score) ==
    IF score > 90 THEN "A"
    ELSE IF score > 80 THEN "B"
    ELSE IF score > 70 THEN "C"
    ELSE IF score > 60 THEN "D"
    ELSE "F"

getGrade(score) ==
    IF score >= 90 THEN "A"
    ELSE IF score >= 80 THEN "B"
    ELSE IF score >= 70 THEN "C"
    ELSE IF score >= 60 THEN "D"
    ELSE "F"

\* no clamp: the score is round((total - outdated) / total * 100)
calculateDependencyFreshnessScore(total, outdated) ==
    IF total = 0
    THEN MetricBreakdown(100, WEIGHTS.dependencyFreshness, <<"No dependencies">>)
    ELSE MetricBreakdown(
             Round((total - outdated) * 100, total),
             WEIGHTS.dependencyFreshness,
             IF outdated = 0 THEN <<"All packages up-to-date">>
             ELSE Decimal(outdated) \o <<" of ">> \o Decimal(total)
                      \o <<" packages outdated">>)

SeverityPart(count, label) ==
    IF count > 0 THEN <<Decimal(count) \o <<" ", label>>>> ELSE <<>>

\* the penalty subtracted without the floor at zero
calculateSecurityScoreUnclamped(critical, high, moderate, low) ==
    IF critical + high + moderate + low = 0
    THEN MetricBreakdown(100, WEIGHTS.security, <<"No vulnerabilities found">>)
    ELSE MetricBreakdown(
             100 - (critical * 25 + high * 15 + moderate * 5 + low * 2),
             WEIGHTS.security,
             JoinParts(SeverityPart(critical, "critical") \o SeverityPart(high, "high")
                       \o SeverityPart(moderate, "moderate") \o SeverityPart(low, "low"))
                 \o <<" vulnerabilities">>)

calculateSecurityScore(critical, high, moderate, low) ==
    IF critical + high + moderate + low = 0
    THEN MetricBreakdown(100, WEIGHTS.security, <<"No vulnerabilities found">>)
    ELSE MetricBreakdown(
             MathMax(0, 100 - (critical * 25 + high * 15 + moderate * 5 + low * 2)),
             WEIGHTS.security,
             JoinParts(SeverityPart(critical, "critical") \o SeverityPart(high, "high")
                       \o SeverityPart(moderate, "moderate") \o SeverityPart(low, "low"))
                 \o <<" vulnerabilities">>)

\* percentage null is carried by isNull
calculateTestCoverageScore(found, percentage) ==
    IF ~found \/ percentage.isNull
    THEN MetricBreakdown(0, WEIGHTS.testCoverage, <<"No coverage", " data found">>)
    ELSE MetricBreakdown(percentage.value, WEIGHTS.testCoverage,
                         Decimal(percentage.value) \o <<"% line coverage">>)

calculateTypescriptStrictnessScore(exists, tsconfigScore, details) ==
    IF ~exists
    THEN MetricBreakdown(0, WEIGHTS.typescriptStrictness, <<"No tsconfig", ".json found">>)
    ELSE MetricBreakdown(tsconfigScore, WEIGHTS.typescriptStrictness, details)

calculateLintingScore(lintingScore, details) ==
    MetricBreakdown(lintingScore, WEIGHTS.linting, details)

calculateDeadCodeScore(noUnusedLocals, noUnusedParameters) ==
    MetricBreakdown(
        50 + (IF noUnusedLocals THEN 25 ELSE 0) + (IF noUnusedParameters THEN 25 ELSE 0),
        WEIGHTS.deadCode,
        IF noUnusedLocals \/ noUnusedParameters
        THEN <<"Enabled: ">>
                 \o JoinParts((IF noUnusedLocals THEN <<<<"noUnusedLocals">>>> ELSE <<>>)
                              \o (IF noUnusedParameters THEN <<<<"noUnusedParameters">>>>
                                  ELSE <<>>))
        ELSE <<"Automated dead code detection not implemented">>)

MetricOrder ==
    <<"dependencyFreshness", "security", "testCoverage", "typescriptStrictness",
      "linting", "deadCode">>

RECURSIVE SumOver(_, _)
SumOver(f, names) ==
    IF names = <<>> THEN 0 ELSE f[Head(names)] + SumOver(f, Tail(names))

\* the plain mean of the six scores, whatever their weights
calculateOverallScoreUnweighted(breakdown) ==
    Round(SumOver([m \in MetricNames |-> breakdown[m].score], MetricOrder), 6)

calculateOverallScore(breakdown) ==
    Round(SumOver([m \in MetricNames |-> breakdown[m].score * breakdown[m].weight],
                  MetricOrder),
          SumOver([m \in MetricNames |-> breakdown[m].weight], MetricOrder))

Recommendation(priority, action) == [priority |-> priority, action |-> action]

When(cond, rec) == IF cond THEN <<rec>> ELSE <<>>

SecurityRecommendations(security) ==
    IF security.score < 100
    THEN When(Includes(security.details, "critical"),
              Recommendation("high", "Fix critical severity vulnerabilities immediately"))
         \o When(Includes(security.details, "high"),
                 Recommendation("high", "Fix high severity vulnerabilities"))
         \o When(Includes(security.details, "moderate"),
                 Recommendation("medium", "Address moderate severity vulnerabilities"))
    ELSE <<>>

FreshnessRecommendations(fresh) ==
    IF fresh.score < 70
    THEN <<Recommendation("medium", "Update outdated dependencies")>>
    ELSE When(fresh.score < 90,
              Recommendation("low", "Consider updating remaining outdated packages"))

CoverageRecommendations(cov) ==
    IF cov.score = 0 /\ Includes(cov.details, "No coverage")
    THEN <<Recommendation("medium", "Set up test coverage reporting")>>
    ELSE IF cov.score < 50
    THEN <<Recommendation("medium", "Increase test coverage (currently below 50%)")>>
    ELSE When(cov.score < 80, Recommendation("low", "Improve test coverage to 80%+"))

StrictnessRecommendations(ts) ==
    IF ts.score = 0
    THEN When(Includes(ts.details, "No tsconfig"),
              Recommendation("medium", "Add TypeScript to the project"))
    ELSE IF ts.score < 40
    THEN <<Recommendation("medium", "Enable \"strict\": true in tsconfig.json")>>
    ELSE When(ts.score < 100 /\ Includes(ts.details, "noUncheckedIndexedAccess"),
              Recommendation("low", "Enable noUncheckedIndexedAccess in tsconfig"))

LintingRecommendations(lint) ==
    IF lint.score = 0
    THEN <<Recommendation("medium", "Set up a linter (Biome or ESLint)")>>
    ELSE When(lint.score < 80 /\ Includes(lint.details, "no Prettier"),
              Recommendation("low", "Add Prettier for consistent code formatting"))

generateRecommendations(breakdown) ==
    SecurityRecommendations(breakdown.security)
    \o FreshnessRecommendations(breakdown.dependencyFreshness)
    \o CoverageRecommendations(breakdown.testCoverage)
    \o StrictnessRecommendations(breakdown.typescriptStrictness)
    \o LintingRecommendations(breakdown.linting)

\* --- the analyzers the scorer reads besides deps and audit ---

NullNumber == [isNull |-> TRUE, value |-> 0]
SomeNumber(n) == [isNull |-> FALSE, value |-> n]

\* lcov totals: Math.round(linesHit / linesFound * 100), null without lines
parseLcovCoverage(linesFound, linesHit) ==
    IF linesFound > 0 THEN SomeNumber(Round(linesHit * 100, linesFound)) ELSE NullNumber

analyzeCoverage(percentage) ==
    IF percentage.isNull
    THEN [found |-> FALSE, percentage |-> NullNumber,
          details |-> <<"No coverage", " data found">>]
    ELSE [found |-> TRUE, percentage |-> percentage,
          details |-> Decimal(percentage.value) \o <<"% line coverage">>]

FLAG_SCORES ==
    [strict |-> 40, noUncheckedIndexedAccess |-> 20, noImplicitReturns |-> 10,
     noFallthroughCasesInSwitch |-> 10, exactOptionalPropertyTypes |-> 10,
     noImplicitOverride |-> 10]

ScoredFlags ==
    <<"strict", "noUncheckedIndexedAccess", "noImplicitReturns",
      "noFallthroughCasesInSwitch", "exactOptionalPropertyTypes", "noImplicitOverride">>

StrictFlagNames == Range(ScoredFlags) \cup {"noUnusedLocals", "noUnusedParameters"}

\* `opts.flag ?? false` for each of the eight flags; `on` is the set of flags
\* the compilerOptions turn on
extractStrictFlags(on) == [f \in StrictFlagNames |-> f \in on]

tsCalculateScore(flags) ==
    SumOver([f \in DOMAIN FLAG_SCORES |-> IF flags[f] THEN FLAG_SCORES[f] ELSE 0],
            ScoredFlags)

FlagsWhere(flags, wanted) ==
    LET picked == SelectSeq(ScoredFlags, LAMBDA f : flags[f] = wanted)
    IN  [i \in 1..Len(picked) |-> <<picked[i]>>]

tsGenerateDetails(flags, score) ==
    IF score = 100 THEN <<"All strict flags enabled">>
    ELSE IF FlagsWhere(flags, TRUE) = <<>> THEN <<"No strict flags enabled">>
    ELSE IF Len(FlagsWhere(flags, FALSE)) <= 2
    THEN <<"Missing: ">> \o JoinParts(FlagsWhere(flags, FALSE))
    ELSE <<"Enabled: ">> \o JoinParts(FlagsWhere(flags, TRUE))

TsConfigAnalysis(exists, flags, score, details) ==
    [exists |-> exists, strict |-> flags.strict, strictFlags |-> flags,
     score |-> score, details |-> details]

\* config: whether tsconfig.json parsed, and the flags it turns on
analyzeTsConfig(config) ==
    IF ~config.parsed
    THEN TsConfigAnalysis(FALSE, extractStrictFlags({}), 0, <<"No tsconfig", ".json found">>)
    ELSE TsConfigAnalysis(TRUE, extractStrictFlags(config.on),
                          tsCalculateScore(extractStrictFlags(config.on)),
                          tsGenerateDetails(extractStrictFlags(config.on),
                                            tsCalculateScore(extractStrictFlags(config.on))))

lintCalculateScore(linter, prettier) ==
    IF linter = "biome" THEN 100
    ELSE IF linter = "eslint" THEN (IF prettier THEN 80 ELSE 50)
    ELSE (IF prettier THEN 20 ELSE 0)

lintGenerateDetails(linter, prettier) ==
    IF linter = "biome" THEN <<"Biome configured">>
    ELSE IF linter = "eslint"
    THEN (IF prettier THEN <<"ESLint + Prettier configured">>
          ELSE <<"ESLint configured (", "no Prettier", ")">>)
    ELSE IF prettier THEN <<"Prettier only (no linter)">>
    ELSE <<"No linting configured">>

LintingAnalysis(linter, prettier) ==
    [linter |-> linter, prettier |-> prettier,
     score |-> lintCalculateScore(linter, prettier),
     details |-> lintGenerateDetails(linter, prettier)]

analyzeLinting(hasBiome, hasEslint, hasPrettier) ==
    LintingAnalysis(IF hasBiome THEN "biome" ELSE IF hasEslint THEN "eslint" ELSE "none",
                    IF hasBiome THEN FALSE ELSE hasPrettier)

\* --- assessQuality ---

QualityBreakdown(depsResult, auditResult, coverageResult, tsconfigResult, lintingResult) ==
    [dependencyFreshness |->
         calculateDependencyFreshnessScore(depsResult.total, depsResult.outdated),
     security |->
         calculateSecurityScore(auditResult.summary.critical, auditResult.summary.high,
                                auditResult.summary.moderate, auditResult.summary.low),
     testCoverage |->
         calculateTestCoverageScore(coverageResult.found, coverageResult.percentage),
     typescriptStrictness |->
         calculateTypescriptStrictnessScore(tsconfigResult.exists, tsconfigResult.score,
                                            tsconfigResult.details),
     linting |-> calculateLintingScore(lintingResult.score, lintingResult.details),
     deadCode |->
         calculateDeadCodeScore(tsconfigResult.strictFlags.noUnusedLocals,
                                tsconfigResult.strictFlags.noUnusedParameters)]

ScoredReport(score, breakdown) ==
    [score |-> score, grade |-> getGrade(score), breakdown |-> breakdown,
     recommendations |-> generateRecommendations(breakdown)]

QualityReport(breakdown) == ScoredReport(calculateOverallScore(breakdown), breakdown)

Pending(v) == [state |-> "pending", value |-> v]
Done(v) == [state |-> "done", value |-> v]
Failed(v) == [state |-> "failed", value |-> v]

NoReport ==
    QualityReport(QualityBreakdown(EmptyDeps, EmptyAudit, analyzeCoverage(NullNumber),
                                   analyzeTsConfig([parsed |-> FALSE, on |-> {}]),
                                   analyzeLinting(FALSE, FALSE, FALSE)))

AnalyzerNames == {"deps", "audit", "coverage", "tsconfig", "linting"}

QaNotCalled ==
    [phase |-> "none",          \* called, awaiting, returned, threw
     started |-> {},            \* the analyzers whose promise exists
     deps |-> Pending(EmptyDeps),
     audit |-> Pending(EmptyAudit),
     coverage |-> Pending(analyzeCoverage(NullNumber)),
     tsconfig |-> Pending(analyzeTsConfig([parsed |-> FALSE, on |-> {}])),
     linting |-> Pending(analyzeLinting(FALSE, FALSE, FALSE)),
     report |-> NoReport]

QaIdle == qa = QaNotCalled

AnalyzerStates(q) ==
    {q.deps.state, q.audit.state, q.coverage.state, q.tsconfig.state, q.linting.state}

\* the continuation of `await Promise.all([...])`: the first rejection rejects
\* assessQuality; the fifth fulfilment lets it build the report
\* Promise.all that waits for every promise and takes a rejection for a result
AfterSettleIgnoringFailure(q) ==
    IF q.phase # "awaiting" THEN q
    ELSE IF AnalyzerStates(q) \subseteq {"done", "failed"}
    THEN [q EXCEPT !.phase = "returned",
                   !.report = QualityReport(
                                  QualityBreakdown(q.deps.value, q.audit.value,
                                                   q.coverage.value, q.tsconfig.value,
                                                   q.linting.value))]
    ELSE q

AfterSettle(q) ==
    IF q.phase # "awaiting" THEN q
    ELSE IF "failed" \in AnalyzerStates(q) THEN [q EXCEPT !.phase = "threw"]
    ELSE IF AnalyzerStates(q) = {"done"}
    THEN [q EXCEPT !.phase = "returned",
                   !.report = QualityReport(
                                  QualityBreakdown(q.deps.value, q.audit.value,
                                                   q.coverage.value, q.tsconfig.value,
                                                   q.linting.value))]
    ELSE q

\* --- inputs of the scorer ---
MaxVulns == 4        \* most vulnerabilities of one severity
MaxLinesFound == 3   \* most lines an lcov report counts

\* what analyzeDeps returns without includeSecurity: the manifest's count of
\* dependencies with the packages of an outdated report
QualityDepsResults ==
    {DepsAnalysis(t, parseNpmOutdated(out).packages, NullSecurity) :
        t \in 0..MaxDeps, out \in OutdatedOutputs("npm")}

SummaryOf(c, h, m, l) ==
    [critical |-> c, high |-> h, moderate |-> m, low |-> l, total |-> c + h + m + l]

QualityAuditResults ==
    {[EmptyAudit EXCEPT !.summary = SummaryOf(c, h, m, l)] :
        c \in {0, 1, MaxVulns}, h \in {0, 1}, m \in {0, 1}, l \in {0, 1}}

QualityCoverageResults ==
    {analyzeCoverage(parseLcovCoverage(c.found, c.hit)) :
        c \in {x \in [found : 0..MaxLinesFound, hit : 0..MaxLinesFound] :
                  x.hit <= x.found}}

TsConfigs ==
    {[parsed |-> FALSE, on |-> {}],
     [parsed |-> TRUE, on |-> {}],
     [parsed |-> TRUE, on |-> {"strict"}],
     [parsed |-> TRUE, on |-> {"noImplicitReturns", "noUnusedLocals"}],
     [parsed |-> TRUE, on |-> StrictFlagNames \ {"noUncheckedIndexedAccess"}],
     [parsed |-> TRUE, on |-> StrictFlagNames]}

QualityTsConfigResults == {analyzeTsConfig(c) : c \in TsConfigs}

QualityLintingResults ==
    {analyzeLinting(b, e, pr) : b \in BOOLEAN, e \in BOOLEAN, pr \in BOOLEAN}

\* --- calls of calculateOverallScore ---
ScoreChoices == {0, 50, 100}

\* six metrics that weigh the same
UnitWeights == [m \in MetricNames |-> 1]

WeightChoices == {WEIGHTS, UnitWeights}

OverallInputs ==
    {[m \in MetricNames |-> MetricBreakdown(sc[m], w[m], <<>>)] :
        sc \in [MetricNames -> ScoreChoices], w \in WeightChoices}

SetScore(breakdown, m, s) == [breakdown EXCEPT ![m].score = s]

OverallCall(breakdown) ==
    [called |-> TRUE, breakdown |-> breakdown, score |-> calculateOverallScore(breakdown)]

OvNotCalled(breakdown) == [called |-> FALSE, breakdown |-> breakdown, score |-> 0]

OvIdle ==
    LET none == [m \in MetricNames |-> MetricBreakdown(0, 0, <<>>)]
    IN  ov = [first |-> OvNotCalled(none), second |-> OvNotCalled(none)]

----------------------------------------------------------------------------
(* Upgrade risk scorer                                                     *)
(*                                                                         *)
(* The files that import the package are known by their number, by how     *)
(* many of them have a test file, and by which of the critical-path        *)
(* patterns at least one of their paths matches.                           *)

RiskFactor(score, reason) == [score |-> score, reason |-> reason]

\* version.replace(/^[\^~>=<]+/, "")
cleanVersionString(version) ==
    LET prefix == {"^", "~", ">", "=", "<"}
        plain  == {i \in 1..Len(version) : version[i] \notin prefix}
    IN  IF plain = {} THEN <<>>
        ELSE DropTo(version, CHOOSE i \in plain : \A j \in plain : i <= j)

\* the manifest entry of the package, cleaned; null when missing, empty or unreadable
getCurrentVersion(manifestVersion) ==
    IF manifestVersion.isNull \/ manifestVersion.chars = <<>> THEN NullStr
    ELSE SomeStr(cleanVersionString(manifestVersion.chars))

\* `npm view <package> version`: null when the command fails, its trimmed stdout otherwise
getLatestVersion(registry) ==
    IF registry.threw \/ registry.exitCode # 0 THEN NullStr
    ELSE SomeStr(registry.stdout)

scoreUpdateType(updateType) ==
    CASE updateType = "major" -> RiskFactor(40, <<"Major version bump">>)
      [] updateType = "minor" -> RiskFactor(15, <<"Minor version bump">>)
      [] updateType = "patch" -> RiskFactor(5, <<"Patch version bump">>)
      [] updateType = "none"  -> RiskFactor(0, <<"No version change">>)

\* a usage-scope factor with a further tier of 40 points above 100 files
scoreUsageScopeFourTiers(fileCount) ==
    IF fileCount = 0 THEN RiskFactor(0, <<"Not used in any files">>)
    ELSE IF fileCount <= 5
    THEN RiskFactor(10, <<"Used in ">> \o Decimal(fileCount) \o <<" file">>
                        \o (IF fileCount > 1 THEN <<"s">> ELSE <<>>))
    ELSE IF fileCount <= 20
    THEN RiskFactor(20, <<"Used in ">> \o Decimal(fileCount) \o <<" files">>)
    ELSE IF fileCount <= 100
    THEN RiskFactor(30, <<"Used in ">> \o Decimal(fileCount) \o <<" files">>)
    ELSE RiskFactor(40, <<"Used in ">> \o Decimal(fileCount) \o <<" files">>)

\* 0, 10, 20 or 30 points by the number of importing files
scoreUsageScope(fileCount) ==
    IF fileCount = 0 THEN RiskFactor(0, <<"Not used in any files">>)
    ELSE IF fileCount <= 5
    THEN RiskFactor(10, <<"Used in ">> \o Decimal(fileCount) \o <<" file">>
                        \o (IF fileCount > 1 THEN <<"s">> ELSE <<>>))
    ELSE IF fileCount <= 20
    THEN RiskFactor(20, <<"Used in ">> \o Decimal(fileCount) \o <<" files">>)
    ELSE RiskFactor(30, <<"Used in ">> \o Decimal(fileCount) \o <<" files">>)

CRITICAL_PATH_PATTERNS == {"api", "routes", "middleware", "auth"}

\* matched: the patterns that at least one path matches
detectCriticalPaths(matched) ==
    [hasApiRoutes |-> "api" \in matched \/ "routes" \in matched,
     hasMiddleware |-> "middleware" \in matched,
     hasAuth |-> "auth" \in matched]

MathMin(a, b) == IF a <= b THEN a ELSE b

scoreCriticalPaths(matched) ==
    LET critical == detectCriticalPaths(matched)
        score    == (IF critical.hasApiRoutes THEN 10 ELSE 0)
                    + (IF critical.hasMiddleware THEN 5 ELSE 0)
                    + (IF critical.hasAuth THEN 5 ELSE 0)
        reasons  == (IF critical.hasApiRoutes THEN <<"API routes">> ELSE <<>>)
                    \o (IF critical.hasMiddleware THEN <<"middleware">> ELSE <<>>)
                    \o (IF critical.hasAuth THEN <<"auth">> ELSE <<>>)
    IN  IF reasons = <<>> THEN RiskFactor(0, <<"Not used in critical paths">>)
        ELSE RiskFactor(MathMin(score, 20), <<"Used in ">> \o Join(reasons, " and "))

\* Math.round(filesWithTests / filePaths.length * 100), 100 when there are no files
calculateTestCoverage(fileCount, filesWithTests) ==
    IF fileCount = 0 THEN 100 ELSE Round(filesWithTests * 100, fileCount)

scoreTestCoverage(coveragePercent) ==
    IF coveragePercent > 50
    THEN RiskFactor(0, Decimal(coveragePercent) \o <<"% of importing files have tests">>)
    ELSE IF coveragePercent > 0
    THEN RiskFactor(5, Decimal(coveragePercent) \o <<"% of importing files have tests">>)
    ELSE RiskFactor(10, <<"No importing files have tests">>)

\* the thresholds moved down by one: 25 is already medium
getRiskLevelExclusive(score) ==
    IF score < 25 THEN "low"
    ELSE IF score < 50 THEN "medium"
    ELSE IF score < 75 THEN "high"
    ELSE "critical"

getRiskLevel(score) ==
    IF score <= 25 THEN "low"
    ELSE IF score <= 50 THEN "medium"
    ELSE IF score <= 75 THEN "high"
    ELSE "critical"

riskGenerateRecommendations(packageName, updateType, factors, criticalPaths) ==
    (IF updateType = "major"
     THEN <<<<"Review ", packageName, " migration guide">>,
            <<"Run full test suite after upgrade">>>>
     ELSE IF updateType = "minor"
     THEN <<<<"Check ", packageName, " changelog for new features">>>>
     ELSE <<>>)
    \o When(factors.usageScope.score >= 20, <<"Consider incremental rollout">>)
    \o When(criticalPaths.hasApiRoutes, <<"Test API routes manually">>)
    \o When(criticalPaths.hasAuth, <<"Verify auth flows">>)
    \o When(criticalPaths.hasMiddleware, <<"Check middleware compatibility">>)
    \o When(factors.testCoverage.score >= 5, <<"Add tests before upgrading">>)

RiskFactors(updateType, fileCount, matched, testCoverage) ==
    [updateType |-> scoreUpdateType(updateType),
     usageScope |-> scoreUsageScope(fileCount),
     criticalPaths |-> scoreCriticalPaths(matched),
     testCoverage |-> scoreTestCoverage(testCoverage)]

RiskAssessment(packageName, from, to, updateType, factors, criticalPaths) ==
    [package |-> packageName, from |-> from, to |-> to, updateType |-> updateType,
     riskScore |-> factors.updateType.score + factors.usageScope.score
                   + factors.criticalPaths.score + factors.testCoverage.score,
     riskLevel |-> getRiskLevel(factors.updateType.score + factors.usageScope.score
                                + factors.criticalPaths.score + factors.testCoverage.score),
     factors |-> factors,
     recommendations |-> riskGenerateRecommendations(packageName, updateType, factors,
                                                     criticalPaths)]

NoAssessment ==
    RiskAssessment("", <<>>, <<>>, "none", RiskFactors("none", 0, {}, 100),
                   detectCriticalPaths({}))

RiskReturned(assessment) == [threw |-> FALSE, error |-> <<>>, assessment |-> assessment]

RiskThrown(error) == [threw |-> TRUE, error |-> error, assessment |-> NoAssessment]

\* x when x is a non-empty string, y otherwise: the `if (!x) x = y` of assessRisk
OrLookup(option, lookup) == IF option.isNull \/ option.chars = <<>> THEN lookup ELSE option

Falsy(str) == str.isNull \/ str.chars = <<>>

\* assessRisk that takes the current version as the target when the registry
\* gives none
assessRiskDefaultingLatest(packageName, call) ==
    LET from   == OrLookup(call.fromVersion, getCurrentVersion(call.manifestVersion))
        latest == OrLookup(call.toVersion, getLatestVersion(call.registry))
        to     == IF Falsy(latest) THEN from ELSE latest
    IN  IF Falsy(from)
        THEN RiskThrown(<<"Package \"", packageName, "\" not found in package.json">>)
        ELSE RiskReturned(
                 RiskAssessment(packageName, from.chars, to.chars,
                                getUpdateType(from.chars, to.chars),
                                RiskFactors(getUpdateType(from.chars, to.chars),
                                            call.files.count, call.files.matched,
                                            calculateTestCoverage(call.files.count,
                                                                  call.files.withTests)),
                                detectCriticalPaths(call.files.matched)))

assessRisk(packageName, call) ==
    LET from == OrLookup(call.fromVersion, getCurrentVersion(call.manifestVersion))
        to   == OrLookup(call.toVersion, getLatestVersion(call.registry))
    IN  IF Falsy(from)
        THEN RiskThrown(<<"Package \"", packageName, "\" not found in package.json">>)
        ELSE IF Falsy(to)
        THEN RiskThrown(<<"Could not fetch latest version for \"", packageName, "\"">>)
        ELSE RiskReturned(
                 RiskAssessment(packageName, from.chars, to.chars,
                                getUpdateType(from.chars, to.chars),
                                RiskFactors(getUpdateType(from.chars, to.chars),
                                            call.files.count, call.files.matched,
                                            calculateTestCoverage(call.files.count,
                                                                  call.files.withTests)),
                                detectCriticalPaths(call.files.matched)))

\* --- inputs of the risk scorer ---
MaxFiles == 21        \* most files that import the package
MaxProbe == 100       \* largest score handed to getRiskLevel directly

ManyFiles == 101      \* a package imported all over a large project
VeryManyFiles == 201

FileCounts == {0, 1, 5, 6, 20, MaxFiles, ManyFiles, VeryManyFiles}

ImportingFiles ==
    {[count |-> 0, withTests |-> 0, matched |-> {}]}
    \cup {[count |-> n, withTests |-> t, matched |-> m] :
            n \in FileCounts \ {0},
            t \in {0, 1, 3, 10, 11, 20, MaxFiles, 50, 51, ManyFiles},
            m \in SUBSET CRITICAL_PATH_PATTERNS}

RegistryAnswers ==
    {[threw |-> TRUE, exitCode |-> 0, stdout |-> <<>>],
     [threw |-> FALSE, exitCode |-> 1, stdout |-> <<>>],
     [threw |-> FALSE, exitCode |-> 0, stdout |-> <<>>]}
    \cup {[threw |-> FALSE, exitCode |-> 0, stdout |-> v] :
            v \in {V(1, 0, 0), V(1, 0, 1), V(1, 1, 0), V(2, 0, 0)}}

RiskCalls ==
    {[fromVersion |-> f, toVersion |-> t, manifestVersion |-> mv, registry |-> r, files |-> fs] :
        f \in {NullStr, SomeStr(V(1, 0, 0))},
        t \in {NullStr, SomeStr(V(2, 0, 0))},
        mv \in {NullStr, SomeStr(<<"^">> \o V(1, 0, 0)), SomeStr(<<"^">>)},
        r \in RegistryAnswers,
        fs \in {x \in ImportingFiles : x.withTests <= x.count}}

RiskPackage == "lodash"

NoRiskCall ==
    [fromVersion |-> NullStr, toVersion |-> NullStr, manifestVersion |-> NullStr,
     registry |-> [threw |-> TRUE, exitCode |-> 0, stdout |-> <<>>],
     files |-> [count |-> 0, withTests |-> 0, matched |-> {}]]

\* mode: "assess" for a call of assessRisk, "level" for a call of getRiskLevel
RkPending ==
    [mode |-> "none", done |-> FALSE, call |-> NoRiskCall, outcome |-> RiskThrown(<<>>),
     score |-> 0, level |-> "low"]

RkIdle == rk = RkPending

----------------------------------------------------------------------------
(* Dependabot analyzer                                                     *)
(*                                                                         *)
(* A pull-request title is known by whether it matches the title pattern   *)
(* and by the three groups the pattern captures; createdAt is a timestamp. *)

\* a check without its try/catch: only the exit code counts
CheckPassesUnlessNonZero(outcome) == outcome.exitCode = 0

\* the await of exec inside try/catch of a prerequisite check: exitCode === 0,
\* false when exec throws
CheckPasses(outcome) == ~outcome.threw /\ outcome.exitCode = 0

\* v.replace(/^[\^~>=<v]+/, "")
cleanVersion(v) ==
    LET prefix == {"^", "~", ">", "=", "<", "v"}
        plain  == {i \in 1..Len(v) : v[i] \notin prefix}
    IN  IF plain = {} THEN <<>>
        ELSE DropTo(v, CHOOSE i \in plain : \A j \in plain : i <= j)

NoTitle == [isNull |-> TRUE, package |-> "", from |-> <<>>, to |-> <<>>]

parseDependabotTitle(title) ==
    IF ~title.matches \/ title.package = "" \/ title.from = <<>> \/ title.to = <<>>
    THEN NoTitle
    ELSE [isNull |-> FALSE, package |-> title.package,
          from |-> cleanVersion(title.from), to |-> cleanVersion(title.to)]

\* toUpperCase() of the words GitHub writes in a status check
ToUpperCase(w) ==
    CASE w = "success"     -> "SUCCESS"
      [] w = "failure"     -> "FAILURE"
      [] w = "pending"     -> "PENDING"
      [] w = "in_progress" -> "IN_PROGRESS"
      [] w = "mergeable"   -> "MERGEABLE"
      [] OTHER             -> w

\* "" stands for a field that is missing or empty
determineCheckStatus(statusCheckRollup) ==
    LET Conclusion(i) == ToUpperCase(statusCheckRollup[i].conclusion)
        State(i)      == ToUpperCase(statusCheckRollup[i].state)
        Status(i)     == ToUpperCase(statusCheckRollup[i].status)
        idx           == 1..Len(statusCheckRollup)
        hasFailing == \E i \in idx :
                         \/ Conclusion(i) \in {"FAILURE", "TIMED_OUT", "CANCELLED"}
                         \/ State(i) \in {"FAILURE", "ERROR"}
        hasPending == \E i \in idx :
                         \/ State(i) \in {"PENDING", "EXPECTED"}
                         \/ Status(i) \in {"IN_PROGRESS", "QUEUED", "WAITING"}
        hasPassing == \E i \in idx :
                         \/ Conclusion(i) \in {"SUCCESS", "NEUTRAL", "SKIPPED",
                                               "ACTION_REQUIRED", "STALE"}
                         \/ State(i) = "SUCCESS"
    IN  IF hasFailing THEN "failing"
        ELSE IF hasPending THEN "pending"
        ELSE IF hasPassing THEN "passing"
        ELSE "none"

\* parsePR of a pull request whose title parses
DependabotPR(pr, parsed) ==
    [number |-> pr.number, package |-> parsed.package, from |-> parsed.from, to |-> parsed.to,
     updateType |-> getUpdateType(parsed.from, parsed.to),
     createdAt |-> pr.createdAt,
     mergeable |-> ToUpperCase(pr.mergeable) = "MERGEABLE",
     checks |-> determineCheckStatus(pr.statusCheckRollup)]

\* the pull requests parsePR keeps, in the order fetched
ParsedPRs(ghPRs) ==
    LET kept == SelectSeq(ghPRs, LAMBDA pr : ~parseDependabotTitle(pr.title).isNull)
    IN  [i \in 1..Len(kept) |-> DependabotPR(kept[i], parseDependabotTitle(kept[i].title))]

calculateSummary(prs) ==
    [total |-> Len(prs),
     patch |-> Len(SelectSeq(prs, LAMBDA pr : pr.updateType = "patch")),
     minor |-> Len(SelectSeq(prs, LAMBDA pr : pr.updateType = "minor")),
     major |-> Len(SelectSeq(prs, LAMBDA pr : pr.updateType = "major")),
     mergeable |-> Len(SelectSeq(prs, LAMBDA pr : pr.mergeable))]

RECURSIVE SortNewestFirst(_)
\* pullRequests.sort((a, b) => b.createdAt - a.createdAt): stable, newest first
SortNewestFirst(prs) ==
    IF prs = <<>> THEN <<>>
    ELSE LET rest == SortNewestFirst(Tail(prs))
             ahead == {i \in 1..Len(rest) : rest[i].createdAt > Head(prs).createdAt}
             k == IF ahead = {} THEN 0 ELSE CHOOSE i \in ahead : \A j \in ahead : j <= i
         IN  SubSeq(rest, 1, k) \o <<Head(prs)>> \o SubSeq(rest, k + 1, Len(rest))

\* one round of fetchDependabotPRs: the pull requests of one author, added to
\* those already seen unless their number was seen
FetchedFrom(answer, allPRs) ==
    IF answer.threw \/ answer.exitCode # 0 \/ answer.stdout \in {"blank", "invalid"}
    THEN allPRs
    ELSE LET fresh == {i \in 1..Len(answer.prs) :
                          /\ \A j \in 1..Len(allPRs) : allPRs[j].number # answer.prs[i].number
                          /\ \A j \in 1..(i - 1) : answer.prs[j].number # answer.prs[i].number}
             kept  == SelectSeq([i \in 1..Len(answer.prs) |->
                                    [pr |-> answer.prs[i], fresh |-> i \in fresh]],
                                LAMBDA x : x.fresh)
         IN  allPRs \o [i \in 1..Len(kept) |-> kept[i].pr]

DependabotError(type, message) ==
    [error |-> TRUE, type |-> type, message |-> message,
     pullRequests |-> <<>>, summary |-> calculateSummary(<<>>)]

DependabotResult(pullRequests) ==
    [error |-> FALSE, type |-> "", message |-> "",
     pullRequests |-> pullRequests, summary |-> calculateSummary(pullRequests)]

\* the step of analyzeDependabot after one prerequisite check has settled
AfterCheck(d, command, outcome, type, message, next) ==
    IF CheckPasses(outcome)
    THEN [d EXCEPT !.pc = next, !.ran = Append(d.ran, command)]
    ELSE [d EXCEPT !.pc = "returned", !.ran = Append(d.ran, command),
                   !.result = DependabotError(type, message)]

\* --- inputs of the Dependabot analyzer ---
CommandOutcomes ==
    {[threw |-> TRUE, exitCode |-> 0], [threw |-> FALSE, exitCode |-> 0],
     [threw |-> FALSE, exitCode |-> 1]}

GhCheck(conclusion, state, status) ==
    [conclusion |-> conclusion, state |-> state, status |-> status]

GhPr(number, matches, from, to, createdAt, mergeable, rollup) ==
    [number |-> number,
     title |-> [matches |-> matches, package |-> "lodash", from |-> from, to |-> to],
     createdAt |-> createdAt, mergeable |-> mergeable, statusCheckRollup |-> rollup]

SamplePRs ==
    <<GhPr(1, TRUE, V(4, 17, 20), V(4, 17, 21), 10, "MERGEABLE",
           <<GhCheck("SUCCESS", "", "COMPLETED")>>),
      GhPr(2, TRUE, <<"^">> \o V(8, 0, 0), <<"^">> \o V(9, 0, 0), 30, "CONFLICTING",
           <<GhCheck("failure", "", ""), GhCheck("", "pending", "")>>),
      GhPr(3, FALSE, <<>>, <<>>, 20, "mergeable", <<>>),
      GhPr(4, TRUE, V(1, 0, 0), <<"v">> \o V(1, 1, 0), 20, "mergeable",
           <<GhCheck("", "", "in_progress")>>)>>

PrLists ==
    {<<>>, <<SamplePRs[1]>>, <<SamplePRs[1], SamplePRs[2]>>, <<SamplePRs[2], SamplePRs[3]>>,
     <<SamplePRs[4], SamplePRs[1], SamplePRs[4]>>}

QueryAnswers ==
    {[threw |-> TRUE, exitCode |-> 0, stdout |-> "blank", prs |-> <<>>],
     [threw |-> FALSE, exitCode |-> 1, stdout |-> "blank", prs |-> <<>>],
     [threw |-> FALSE, exitCode |-> 0, stdout |-> "blank", prs |-> <<>>],
     [threw |-> FALSE, exitCode |-> 0, stdout |-> "invalid", prs |-> <<>>]}
    \cup {[threw |-> FALSE, exitCode |-> 0, stdout |-> "list", prs |-> l] : l \in PrLists}

DependabotEnvs ==
    [installed : CommandOutcomes, authenticated : CommandOutcomes, repo : CommandOutcomes,
     remote : CommandOutcomes, app : QueryAnswers, bot : QueryAnswers]

DbNotCalled ==
    [pc |-> "none",
     env |-> [installed |-> [threw |-> TRUE, exitCode |-> 0],
              authenticated |-> [threw |-> TRUE, exitCode |-> 0],
              repo |-> [threw |-> TRUE, exitCode |-> 0],
              remote |-> [threw |-> TRUE, exitCode |-> 0],
              app |-> [threw |-> TRUE, exitCode |-> 0, stdout |-> "blank", prs |-> <<>>],
              bot |-> [threw |-> TRUE, exitCode |-> 0, stdout |-> "blank", prs |-> <<>>]],
     ran |-> <<>>,            \* the commands handed to exec so far, in order
     allPRs |-> <<>>,
     result |-> DependabotResult(<<>>)]

DbIdle == db = DbNotCalled

\* --- the deps analyzer's parsers on the audit output ---
\* the audit parser each package manager's output goes to (both analyzers send
\* bun to the npm parser)
ParserOf(pm) == IF pm = "npm" \/ pm = "bun" THEN "npm" ELSE pm

DpPending == [pm |-> "none", res |-> NullSecurity]

DpIdle == dp = DpPending

----------------------------------------------------------------------------
(* Imports analyzer                                                        *)
(*                                                                         *)
(* A source file is the sequence of the statements of its syntax tree that *)
(* name a module: import declarations, export declarations with a module,  *)
(* require calls and dynamic imports.  A module specifier is the sequence   *)
(* of its "/"-separated segments.  A specifier is its text, with star set  *)
(* for the "* as name" form.                                               *)

\* moduleSpecifier === targetPackage || moduleSpecifier.startsWith(targetPackage + "/")
matchesPackage(moduleSpecifier, targetPackage) ==
    \/ moduleSpecifier = targetPackage
    \/ /\ Len(moduleSpecifier) > Len(targetPackage)
       /\ SubSeq(moduleSpecifier, 1, Len(targetPackage)) = targetPackage

\* the part after "package/", "" for null; subpaths here have one segment
extractSubpath(moduleSpecifier, targetPackage) ==
    IF moduleSpecifier # targetPackage /\ matchesPackage(moduleSpecifier, targetPackage)
    THEN moduleSpecifier[Len(targetPackage) + 1]
    ELSE ""

Specifier(text) == [star |-> FALSE, text |-> text]

StarSpecifier(name) == [star |-> TRUE, text |-> name]

ImportInfo(line, type, specifiers) == [line |-> line, type |-> type, specifiers |-> specifiers]

\* element.propertyName ? element.propertyName.text : element.name.text
OriginalNames(elements) ==
    [i \in 1..Len(elements) |->
        Specifier(IF elements[i].propertyName # "" THEN elements[i].propertyName
                  ELSE elements[i].name)]

\* the ImportInfo of an import declaration that matches the package
ImportDeclarationInfo(node, line, targetPackage) ==
    IF ~node.hasClause THEN ImportInfo(line, "named", <<>>)
    ELSE LET fromName  == IF node.default # "" THEN <<Specifier(node.default)>> ELSE <<>>
             fromBound == IF node.bindings = "namespace" THEN <<StarSpecifier(node.namespace)>>
                          ELSE IF node.bindings = "named" THEN OriginalNames(node.elements)
                          ELSE <<>>
             type      == IF node.bindings = "namespace" THEN "namespace"
                          ELSE IF node.default # "" THEN "default"
                          ELSE "named"
             subpath   == extractSubpath(node.module, targetPackage)
         IN  ImportInfo(line, type,
                        IF subpath # "" /\ fromName \o fromBound = <<>>
                        THEN <<Specifier(subpath)>> ELSE fromName \o fromBound)

\* the ImportInfo of any statement that matches the package
StatementInfo(node, line, targetPackage) ==
    LET subpath == extractSubpath(node.module, targetPackage)
    IN  CASE node.kind = "import" -> ImportDeclarationInfo(node, line, targetPackage)
          [] node.kind = "export" ->
                ImportInfo(line, "reexport",
                           IF node.bindings = "named" THEN OriginalNames(node.elements) ELSE <<>>)
          [] node.kind = "require" ->
                ImportInfo(line, "require",
                           IF node.default # "" THEN <<Specifier(node.default)>>
                           ELSE IF subpath # "" THEN <<Specifier(subpath)>> ELSE <<>>)
          [] node.kind = "dynamic" ->
                ImportInfo(line, "dynamic",
                           IF subpath # "" THEN <<Specifier(subpath)>> ELSE <<>>)

\* the line of a statement is its position in the file
findImportsInFile(code, targetPackage) ==
    LET hits == SelectSeq([i \in 1..Len(code) |-> [node |-> code[i], line |-> i]],
                          LAMBDA x : matchesPackage(x.node.module, targetPackage))
    IN  [i \in 1..Len(hits) |-> StatementInfo(hits[i].node, hits[i].line, targetPackage)]

\* the names the model uses, in the order of their UTF-16 code units
NameOrder == <<"Map", "_", "debounce", "map", "throttle">>

NameRank(name) == CHOOSE i \in 1..Len(NameOrder) : NameOrder[i] = name

RECURSIVE SortedNames(_)
\* Array.from(set).sort()
SortedNames(names) ==
    IF names = {} THEN <<>>
    ELSE LET least == CHOOSE n \in names : \A m \in names : NameRank(n) <= NameRank(m)
         IN  <<least>> \o SortedNames(names \ {least})

\* the specifiers of a file's imports that are kept: those not starting with "* as "
KeptSpecifiers(imports) ==
    LET all == Flatten([i \in 1..Len(imports) |-> imports[i].specifiers])
        kept == SelectSeq(all, LAMBDA sp : ~sp.star)
    IN  [i \in 1..Len(kept) |-> kept[i].text]

CountType(imports, type) == Len(SelectSeq(imports, LAMBDA imp : imp.type = type))

\* the imports of the files that could be read and have at least one
FoundImports(files, targetPackage) ==
    LET readable == SelectSeq(files, LAMBDA f : f.readable)
        found == [i \in 1..Len(readable) |->
                     [path |-> readable[i].path,
                      imports |-> findImportsInFile(readable[i].code, targetPackage)]]
    IN  SelectSeq(found, LAMBDA f : f.imports # <<>>)

analyzeImports(packageName, files) ==
    LET found == FoundImports(files, packageName)
        all   == Flatten([i \in 1..Len(found) |-> found[i].imports])
    IN  [package |-> packageName,
         totalImports |-> Len(all),
         files |-> [i \in 1..Len(found) |->
                      [path |-> found[i].path,
                       imports |-> KeptSpecifiers(found[i].imports),
                       lines |-> [j \in 1..Len(found[i].imports) |-> found[i].imports[j].line]]],
         breakdown |-> [namedImports |-> SortedNames(Range(KeptSpecifiers(all))),
                        defaultImports |-> CountType(all, "default"),
                        namespaceImports |-> CountType(all, "namespace")]]

\* --- inputs of the imports analyzer ---
MaxSourceFiles == 2     \* most source files in the project

TargetPackage == <<"lodash">>

Element(propertyName, name) == [propertyName |-> propertyName, name |-> name]

Statement(kind, module, hasClause, default, bindings, namespace, elements) ==
    [kind |-> kind, module |-> module, hasClause |-> hasClause, default |-> default,
     bindings |-> bindings, namespace |-> namespace, elements |-> elements]

\* import { map, debounce as d } from "lodash"
NamedImport ==
    Statement("import", <<"lodash">>, TRUE, "", "named", "",
              <<Element("", "map"), Element("debounce", "throttle")>>)
\* import _ from "lodash"
DefaultImport == Statement("import", <<"lodash">>, TRUE, "_", "none", "", <<>>)
\* import _, { map } from "lodash"
MixedImport == Statement("import", <<"lodash">>, TRUE, "_", "named", "", <<Element("", "map")>>)
\* import * as _ from "lodash"
NamespaceImport == Statement("import", <<"lodash">>, TRUE, "", "namespace", "_", <<>>)
\* import "lodash"
SideEffectImport == Statement("import", <<"lodash">>, FALSE, "", "none", "", <<>>)
\* import debounce from "lodash/debounce"
SubpathImport == Statement("import", <<"lodash", "debounce">>, TRUE, "", "none", "", <<>>)
\* export { Map, map } from "lodash"
NamedReexport ==
    Statement("export", <<"lodash">>, TRUE, "", "named", "",
              <<Element("", "Map"), Element("", "map")>>)
\* export * from "lodash"
StarReexport == Statement("export", <<"lodash">>, FALSE, "", "none", "", <<>>)
\* const _ = require("lodash")
RequireCall == Statement("require", <<"lodash">>, FALSE, "_", "none", "", <<>>)
\* import("lodash/debounce")
DynamicImport == Statement("dynamic", <<"lodash", "debounce">>, FALSE, "", "none", "", <<>>)
\* import { map } from "lodash-es"
OtherImport == Statement("import", <<"lodash-es">>, TRUE, "", "named", "", <<Element("", "map")>>)

SourceFile(path, code) == [path |-> path, readable |-> TRUE, code |-> code]

SourceFiles ==
    {SourceFile("src/a.ts", <<NamedImport>>),
     SourceFile("src/b.ts", <<NamedReexport, NamedImport>>),
     SourceFile("src/c.ts", <<DefaultImport>>),
     SourceFile("src/d.ts", <<OtherImport, NamespaceImport, SideEffectImport>>),
     SourceFile("src/e.ts", <<MixedImport, StarReexport>>),
     SourceFile("src/f.ts", <<SubpathImport>>),
     SourceFile("src/g.js", <<RequireCall, DynamicImport>>),
     SourceFile("src/h.ts", <<OtherImport>>),
     SourceFile("src/i.ts", <<>>),
     [path |-> "src/j.ts", readable |-> FALSE, code |-> <<>>]}

Projects == UNION {[1..n -> SourceFiles] : n \in 0..MaxSourceFiles}

ImPending == [done |-> FALSE, files |-> <<>>, analysis |-> analyzeImports(TargetPackage, <<>>)]

ImIdle == im = ImPending

----------------------------------------------------------------------------
(* Specifications                                                          *)

InitPM ==
    /\ pmFiles \in SUBSET AllLockfiles
    /\ pmManifest \in Manifests
    /\ pmResult = PmPending
    /\ SvIdle /\ AuIdle /\ ExIdle /\ AnIdle /\ QaIdle /\ OdIdle /\ OvIdle /\ RkIdle /\ DbIdle /\ ImIdle /\ DpIdle

DetectPackageManager ==
    /\ ~pmResult.done
    /\ pmResult' = [done |-> TRUE, info |-> detectPackageManager(pmFiles, pmManifest)]
    /\ UNCHANGED <<pmFiles, pmManifest, svVars, auVars, exVars, an, qa, od, ov, rk, db, im, dp>>

NextPM == DetectPackageManager

SpecPM == InitPM /\ [][NextPM]_vars

InitSemver ==
    /\ svCurrent \in VersionInputs
    /\ svLatest \in VersionInputs
    /\ svUpdate = "pending"
    /\ svCmp = SvPendingCmp
    /\ PmIdle /\ AuIdle /\ ExIdle /\ AnIdle /\ QaIdle /\ OdIdle /\ OvIdle /\ RkIdle /\ DbIdle /\ ImIdle /\ DpIdle

GetUpdateType ==
    /\ svUpdate = "pending"
    /\ svUpdate' = getUpdateType(svCurrent.chars, svLatest.chars)
    /\ UNCHANGED <<svCurrent, svLatest, svCmp, pmVars, auVars, exVars, an, qa, od, ov, rk, db, im, dp>>

CompareSemver ==
    /\ ~svCmp.done
    /\ svCmp' = [done |-> TRUE,
                 ab |-> compareSemver(svCurrent.chars, svLatest.chars),
                 ba |-> compareSemver(svLatest.chars, svCurrent.chars),
                 aa |-> compareSemver(svCurrent.chars, svCurrent.chars)]
    /\ UNCHANGED <<svCurrent, svLatest, svUpdate, pmVars, auVars, exVars, an, qa, od, ov, rk, db, im, dp>>

NextSemver == GetUpdateType \/ CompareSemver

SpecSemver == InitSemver /\ [][NextSemver]_vars

InitAudit ==
    /\ auOutput \in AuditOutputs
    /\ auResult = AuPending
    /\ PmIdle /\ SvIdle /\ ExIdle /\ AnIdle /\ QaIdle /\ OdIdle /\ OvIdle /\ RkIdle /\ DbIdle /\ ImIdle /\ DpIdle

ParseNpmAudit ==
    /\ auResult.parser = "none"
    /\ auResult' = [parser |-> "npm", res |-> parseNpmAudit(auOutput)]
    /\ UNCHANGED <<auOutput, pmVars, svVars, exVars, an, qa, od, ov, rk, db, im, dp>>

ParsePnpmAudit ==
    /\ auResult.parser = "none"
    /\ auResult' = [parser |-> "pnpm", res |-> parsePnpmAudit(auOutput)]
    /\ UNCHANGED <<auOutput, pmVars, svVars, exVars, an, qa, od, ov, rk, db, im, dp>>

ParseYarnAudit ==
    /\ auResult.parser = "none"
    /\ auResult' = [parser |-> "yarn", res |-> parseYarnAudit(auOutput)]
    /\ UNCHANGED <<auOutput, pmVars, svVars, exVars, an, qa, od, ov, rk, db, im, dp>>

NextAudit == ParseNpmAudit \/ ParsePnpmAudit \/ ParseYarnAudit

SpecAudit == InitAudit /\ [][NextAudit]_vars

InitExec ==
    /\ exEnv \in ExecEnvs
    /\ ex = ExCalled
    /\ PmIdle /\ SvIdle /\ AuIdle /\ AnIdle /\ QaIdle /\ OdIdle /\ OvIdle /\ RkIdle /\ DbIdle /\ ImIdle /\ DpIdle

ExOthersUnchanged == UNCHANGED <<exEnv, pmVars, svVars, auVars, an, qa, od, ov, rk, db, im, dp>>

\* exec up to its first await: Bun.spawn succeeds, the timer is armed, the reader
\* starts on stdout, and exec awaits the race
ExecStart ==
    /\ ex.phase = "called" /\ exEnv.spawnOk
    /\ ex' = [ex EXCEPT !.phase = "racing", !.child = "running",
                        !.timer = "armed", !.inner = "stdout"]
    /\ ExOthersUnchanged

\* Bun.spawn throws (no such executable, bad cwd): the statement is outside the
\* try block, so the error leaves exec as it is and no timer is armed
ExecSpawnThrows ==
    /\ ex.phase = "called" /\ ~exEnv.spawnOk
    /\ ex' = [ex EXCEPT !.phase = "threw", !.settled = @ + 1,
                        !.error = [kind |-> "spawn", hasCause |-> FALSE]]
    /\ ExOthersUnchanged

\* the child process ends, by itself or after the kill signal
ChildExits ==
    /\ ex.child = "running"
    /\ ex' = [ex EXCEPT !.child = "exited"]
    /\ ExOthersUnchanged

\* new Response(proc.stdout).text() resolves
StdoutCollected ==
    /\ ex.inner = "stdout"
    /\ ex' = [ex EXCEPT !.inner = "stderr"]
    /\ ExOthersUnchanged

\* new Response(proc.stderr).text() resolves
StderrCollected ==
    /\ ex.inner = "stderr"
    /\ ex' = [ex EXCEPT !.inner = "exited"]
    /\ ExOthersUnchanged

\* proc.exited resolves: the reader returns {stdout, stderr, exitCode}; if the race
\* is still pending exec returns that result and its finally block runs
ExitCollected ==
    /\ ex.inner = "exited" /\ ex.child = "exited"
    /\ IF ex.race = "pending"
       THEN ex' = [ex EXCEPT !.inner = "done", !.race = "fulfilled",
                             !.phase = "returned", !.settled = @ + 1,
                             !.result = [stdout |-> exEnv.stdout, stderr |-> exEnv.stderr,
                                         exitCode |-> exEnv.exitCode],
                             !.timer = TimerAfterFinally(@)]
       ELSE ex' = [ex EXCEPT !.inner = "done"]
    /\ ExOthersUnchanged

\* a read of the child's pipes or of its exit status rejects
ReadFails ==
    /\ ex.inner \in {"stdout", "stderr", "exited"}
    /\ \E messageHasTimedOut \in BOOLEAN :
        IF ex.race = "pending"
        THEN ex' = [ex EXCEPT !.inner = "rejected", !.race = "rejected",
                              !.phase = "threw", !.settled = @ + 1,
                              !.error = CaughtError(FALSE, messageHasTimedOut),
                              !.timer = TimerAfterFinally(@)]
        ELSE ex' = [ex EXCEPT !.inner = "rejected"]
    /\ ExOthersUnchanged

\* the setTimeout callback: proc.kill(), then reject with the timeout error; if the
\* race is still pending exec rethrows that error and its finally block runs
TimerFires ==
    /\ ex.timer = "armed"
    /\ IF ex.race = "pending"
       THEN ex' = [ex EXCEPT !.timer = TimerAfterFinally("fired"), !.killed = TRUE,
                             !.race = "rejected", !.phase = "threw", !.settled = @ + 1,
                             !.error = CaughtError(TRUE, TRUE)]
       ELSE ex' = [ex EXCEPT !.timer = "fired", !.killed = TRUE]
    /\ ExOthersUnchanged

NextExec ==
    \/ ExecStart \/ ExecSpawnThrows \/ ChildExits \/ StdoutCollected
    \/ StderrCollected \/ ExitCollected \/ ReadFails \/ TimerFires

SpecExec == InitExec /\ [][NextExec]_vars

\* a timer that is armed and not cleared does fire
SpecExecFair == SpecExec /\ WF_vars(TimerFires)

InitAnalyze ==
    /\ pmFiles \in AnalyzerProjects
    /\ pmManifest = [kind |-> "parsed", hasField |-> FALSE, tokens |-> <<>>]
    /\ pmResult = PmPending
    /\ \E w \in {"deps", "audit"}, sec \in BOOLEAN, n \in 0..MaxDeps :
          /\ (w = "audit" => ~sec /\ n = 0)
          /\ an = [AnNotCalled EXCEPT !.which = w, !.includeSecurity = sec,
                                      !.manifestDeps = n, !.phase = "called"]
    /\ exEnv = [spawnOk |-> TRUE, exitCode |-> 0, stdout |-> EmptyOut, stderr |-> EmptyOut]
    /\ ex = ExNotCalled
    /\ SvIdle /\ AuIdle /\ QaIdle /\ OdIdle /\ OvIdle /\ RkIdle /\ DbIdle /\ ImIdle /\ DpIdle

AnOthersUnchanged == UNCHANGED <<pmVars, svVars, auVars, qa, od, ov, rk, db, im, dp>>

\* analyzeAudit up to `await runAuditCheck(pm, cwd)`
AnalyzeAuditStart ==
    /\ an.which = "audit" /\ an.phase = "called"
    /\ \E env \in CommandEnvs(AnalyzerAuditOutputs) :
          /\ exEnv' = env
          /\ ex' = ExCalled
    /\ an' = [an EXCEPT !.phase = "audit",
                        !.pm = detectPackageManager(pmFiles, pmManifest).name,
                        !.runs.audit = @ + 1]
    /\ AnOthersUnchanged

\* `if (!result) return {vulnerabilities: [], summary: all zero}`
AuditOrEmpty(result) == IF result.isNull THEN EmptyAudit ELSE result

\* analyzeAudit after the await: exec's error propagates, its result is parsed
AnalyzeAuditFinish ==
    /\ an.which = "audit" /\ an.phase = "audit"
    /\ ex.phase \in {"returned", "threw"}
    /\ IF ex.phase = "threw"
       THEN an' = [an EXCEPT !.phase = "threw", !.error = ex.error]
       ELSE an' = [an EXCEPT
                     !.phase = "returned",
                     !.audit = AuditOrEmpty(
                                  parseAuditOutput(an.pm, FirstTruthy(ex.result.stdout,
                                                                      ex.result.stderr)))]
    /\ UNCHANGED exVars
    /\ AnOthersUnchanged

\* analyzeDeps up to `await runOutdatedCheck(pm, cwd)`
AnalyzeDepsStart ==
    /\ an.which = "deps" /\ an.phase = "called"
    /\ LET pm == detectPackageManager(pmFiles, pmManifest).name
       IN  /\ \E env \in CommandEnvs(OutdatedOutputs(pm)) :
                 /\ exEnv' = env
                 /\ ex' = ExCalled
           /\ an' = [an EXCEPT !.phase = "outdated", !.pm = pm, !.runs.outdated = @ + 1]
    /\ AnOthersUnchanged

\* analyzeDeps between the two commands: with includeSecurity it goes on to the
\* audit command, without it the result is built with security null
DepsAfterOutdated(a, parsed, total) ==
    IF parsed.threw
    THEN [a EXCEPT !.phase = "threw", !.error = [kind |-> "parse", hasCause |-> FALSE]]
    ELSE IF a.includeSecurity
    THEN [a EXCEPT !.phase = "audit", !.packages = parsed.packages, !.total = total,
                   !.runs.audit = @ + 1]
    ELSE [a EXCEPT !.phase = "returned", !.packages = parsed.packages, !.total = total,
                   !.deps = DepsAnalysis(total, parsed.packages, NullSecurity)]

\* analyzeDeps after the outdated command: parse, count, then either return or
\* start the audit command
AnalyzeDepsAfterOutdated ==
    /\ an.which = "deps" /\ an.phase = "outdated"
    /\ ex.phase \in {"returned", "threw"}
    /\ IF ex.phase = "threw"
       THEN /\ an' = [an EXCEPT !.phase = "threw", !.error = ex.error]
            /\ UNCHANGED exVars
       ELSE /\ an' = DepsAfterOutdated(an,
                                       parseOutdatedOutput(an.pm,
                                                           FirstTruthy(ex.result.stdout,
                                                                       ex.result.stderr)),
                                       an.manifestDeps)
            /\ IF an'.phase = "audit"
               THEN \E env \in CommandEnvs(AnalyzerAuditOutputs) :
                       /\ exEnv' = env
                       /\ ex' = ExCalled
               ELSE UNCHANGED exVars
    /\ AnOthersUnchanged

\* analyzeDeps after the audit command
AnalyzeDepsAfterAudit ==
    /\ an.which = "deps" /\ an.phase = "audit"
    /\ ex.phase \in {"returned", "threw"}
    /\ IF ex.phase = "threw"
       THEN an' = [an EXCEPT !.phase = "threw", !.error = ex.error]
       ELSE an' = [an EXCEPT
                     !.phase = "returned",
                     !.deps = DepsAnalysis(an.total, an.packages,
                                           depsParseAuditOutput(
                                               an.pm, FirstTruthy(ex.result.stdout,
                                                                  ex.result.stderr)))]
    /\ UNCHANGED exVars
    /\ AnOthersUnchanged

NextAnalyze ==
    \/ AnalyzeAuditStart \/ AnalyzeAuditFinish
    \/ AnalyzeDepsStart \/ AnalyzeDepsAfterOutdated \/ AnalyzeDepsAfterAudit
    \/ ExecStart \/ ExecSpawnThrows \/ ChildExits \/ StdoutCollected
    \/ StderrCollected \/ ExitCollected \/ ReadFails \/ TimerFires

SpecAnalyze == InitAnalyze /\ [][NextAnalyze]_vars

InitQuality ==
    /\ qa = [QaNotCalled EXCEPT !.phase = "called"]
    /\ PmIdle /\ SvIdle /\ AuIdle /\ ExIdle /\ AnIdle /\ OdIdle /\ OvIdle /\ RkIdle /\ DbIdle /\ ImIdle /\ DpIdle

QaOthersUnchanged == UNCHANGED <<pmVars, svVars, auVars, exVars, an, od, ov, rk, db, im, dp>>

\* the synchronous start of assessQuality: the five calls inside the array handed
\* to Promise.all, then the await
StartAnalyses ==
    /\ qa.phase = "called"
    /\ qa' = [qa EXCEPT !.phase = "awaiting", !.started = AnalyzerNames]
    /\ QaOthersUnchanged

\* analyzeDeps({cwd}) settles: with a DepsAnalysis, or rejected by its command
DepsSettles ==
    /\ "deps" \in qa.started /\ qa.deps.state = "pending"
    /\ \E outcome \in {Done(r) : r \in QualityDepsResults} \cup {Failed(EmptyDeps)} :
          qa' = AfterSettle([qa EXCEPT !.deps = outcome])
    /\ QaOthersUnchanged

\* analyzeAudit({cwd}) settles: with an AuditResult, or rejected by its command
AuditSettles ==
    /\ "audit" \in qa.started /\ qa.audit.state = "pending"
    /\ \E outcome \in {Done(r) : r \in QualityAuditResults} \cup {Failed(EmptyAudit)} :
          qa' = AfterSettle([qa EXCEPT !.audit = outcome])
    /\ QaOthersUnchanged

CoverageSettles ==
    /\ "coverage" \in qa.started /\ qa.coverage.state = "pending"
    /\ \E r \in QualityCoverageResults :
          qa' = AfterSettle([qa EXCEPT !.coverage = Done(r)])
    /\ QaOthersUnchanged

TsConfigSettles ==
    /\ "tsconfig" \in qa.started /\ qa.tsconfig.state = "pending"
    /\ \E r \in QualityTsConfigResults :
          qa' = AfterSettle([qa EXCEPT !.tsconfig = Done(r)])
    /\ QaOthersUnchanged

LintingSettles ==
    /\ "linting" \in qa.started /\ qa.linting.state = "pending"
    /\ \E r \in QualityLintingResults :
          qa' = AfterSettle([qa EXCEPT !.linting = Done(r)])
    /\ QaOthersUnchanged

NextQuality ==
    StartAnalyses \/ DepsSettles \/ AuditSettles \/ CoverageSettles \/ TsConfigSettles \/ LintingSettles

SpecQuality == InitQuality /\ [][NextQuality]_vars

InitOutdated ==
    /\ \E pm \in PackageManagerName, out \in OutdatedInputs :
          od = [OdPending EXCEPT !.pm = pm, !.output = out]
    /\ PmIdle /\ SvIdle /\ AuIdle /\ ExIdle /\ AnIdle /\ QaIdle /\ OvIdle /\ RkIdle /\ DbIdle /\ ImIdle /\ DpIdle

OdOthersUnchanged == UNCHANGED <<pmVars, svVars, auVars, exVars, an, qa, ov, rk, db, im, dp>>

ParseNpmOutdated ==
    /\ ~od.done /\ od.pm = "npm"
    /\ od' = [od EXCEPT !.done = TRUE, !.result = parseNpmOutdated(od.output)]
    /\ OdOthersUnchanged

ParsePnpmOutdated ==
    /\ ~od.done /\ od.pm = "pnpm"
    /\ od' = [od EXCEPT !.done = TRUE, !.result = parsePnpmOutdated(od.output)]
    /\ OdOthersUnchanged

ParseYarnOutdated ==
    /\ ~od.done /\ od.pm = "yarn"
    /\ od' = [od EXCEPT !.done = TRUE, !.result = parseYarnOutdated(od.output)]
    /\ OdOthersUnchanged

ParseBunOutdated ==
    /\ ~od.done /\ od.pm = "bun"
    /\ od' = [od EXCEPT !.done = TRUE, !.result = parseBunOutdated(od.output)]
    /\ OdOthersUnchanged

NextOutdated == ParseNpmOutdated \/ ParsePnpmOutdated \/ ParseYarnOutdated \/ ParseBunOutdated

SpecOutdated == InitOutdated /\ [][NextOutdated]_vars

InitOverall ==
    /\ \E b \in OverallInputs : ov = [first |-> OvNotCalled(b), second |-> OvNotCalled(b)]
    /\ PmIdle /\ SvIdle /\ AuIdle /\ ExIdle /\ AnIdle /\ QaIdle /\ OdIdle /\ RkIdle /\ DbIdle /\ ImIdle /\ DpIdle

OvOthersUnchanged == UNCHANGED <<pmVars, svVars, auVars, exVars, an, qa, od, rk, db, im, dp>>

CalculateOverallScore ==
    /\ ~ov.first.called
    /\ ov' = [ov EXCEPT !.first = OverallCall(ov.first.breakdown)]
    /\ OvOthersUnchanged

\* a second call, on a breakdown that differs from the first in up to two scores
CalculateOverallScoreAgain ==
    /\ ov.first.called /\ ~ov.second.called
    /\ \E m1 \in MetricNames, m2 \in MetricNames, s1 \in ScoreChoices, s2 \in ScoreChoices :
          ov' = [ov EXCEPT !.second =
                    OverallCall(SetScore(SetScore(ov.first.breakdown, m1, s1), m2, s2))]
    /\ OvOthersUnchanged

NextOverall == CalculateOverallScore \/ CalculateOverallScoreAgain

SpecOverall == InitOverall /\ [][NextOverall]_vars

InitRisk ==
    /\ \/ \E c \in RiskCalls : rk = [RkPending EXCEPT !.mode = "assess", !.call = c]
       \/ \E s \in 0..MaxProbe : rk = [RkPending EXCEPT !.mode = "level", !.score = s]
    /\ PmIdle /\ SvIdle /\ AuIdle /\ ExIdle /\ AnIdle /\ QaIdle /\ OdIdle /\ OvIdle /\ DbIdle /\ ImIdle /\ DpIdle

RkOthersUnchanged == UNCHANGED <<pmVars, svVars, auVars, exVars, an, qa, od, ov, db, im, dp>>

AssessRisk ==
    /\ rk.mode = "assess" /\ ~rk.done
    /\ rk' = [rk EXCEPT !.done = TRUE, !.outcome = assessRisk(RiskPackage, rk.call)]
    /\ RkOthersUnchanged

GetRiskLevel ==
    /\ rk.mode = "level" /\ ~rk.done
    /\ rk' = [rk EXCEPT !.done = TRUE, !.level = getRiskLevel(rk.score)]
    /\ RkOthersUnchanged

NextRisk == AssessRisk \/ GetRiskLevel

SpecRisk == InitRisk /\ [][NextRisk]_vars


InitDependabot ==
    /\ \E e \in DependabotEnvs : db = [DbNotCalled EXCEPT !.pc = "installed", !.env = e]
    /\ PmIdle /\ SvIdle /\ AuIdle /\ ExIdle /\ AnIdle /\ QaIdle /\ OdIdle /\ OvIdle /\ RkIdle
    /\ ImIdle /\ DpIdle

DbOthersUnchanged == UNCHANGED <<pmVars, svVars, auVars, exVars, an, qa, od, ov, rk, im, dp>>

\* `gh --version` has settled
IsGhInstalled ==
    /\ db.pc = "installed"
    /\ db' = AfterCheck(db, "gh --version", db.env.installed, "gh_not_installed",
                        "GitHub CLI (gh) is not installed. Install it from https://cli.github.com/ and run 'gh auth login'.",
                        "authenticated")
    /\ DbOthersUnchanged

\* `gh auth status` has settled
IsGhAuthenticated ==
    /\ db.pc = "authenticated"
    /\ db' = AfterCheck(db, "gh auth status", db.env.authenticated, "gh_not_authenticated",
                        "GitHub CLI is not authenticated. Run 'gh auth login' to authenticate.",
                        "repo")
    /\ DbOthersUnchanged

\* `git rev-parse --git-dir` has settled
IsGitRepo ==
    /\ db.pc = "repo"
    /\ db' = AfterCheck(db, "git rev-parse --git-dir", db.env.repo, "not_git_repo",
                        "Current directory is not a git repository. Run this command from within a git repository.",
                        "remote")
    /\ DbOthersUnchanged

\* `gh repo view --json name` has settled
HasGitHubRemote ==
    /\ db.pc = "remote"
    /\ db' = AfterCheck(db, "gh repo view --json name", db.env.remote, "no_github_remote",
                        "Could not find a GitHub remote for this repository. Ensure the repository is hosted on GitHub.",
                        "app")
    /\ DbOthersUnchanged

\* `gh pr list --author app/dependabot` has settled
FetchAppPRs ==
    /\ db.pc = "app"
    /\ db' = [db EXCEPT !.pc = "bot",
                        !.ran = Append(db.ran, "gh pr list --author app/dependabot"),
                        !.allPRs = FetchedFrom(db.env.app, db.allPRs)]
    /\ DbOthersUnchanged

\* `gh pr list --author dependabot[bot]` has settled: parse, sort, summarize, return
FetchBotPRs ==
    /\ db.pc = "bot"
    /\ db' = [db EXCEPT !.pc = "returned",
                        !.ran = Append(db.ran, "gh pr list --author dependabot[bot]"),
                        !.allPRs = FetchedFrom(db.env.bot, db.allPRs),
                        !.result = DependabotResult(
                                       SortNewestFirst(
                                           ParsedPRs(FetchedFrom(db.env.bot, db.allPRs))))]
    /\ DbOthersUnchanged

NextDependabot ==
    \/ IsGhInstalled \/ IsGhAuthenticated \/ IsGitRepo \/ HasGitHubRemote
    \/ FetchAppPRs \/ FetchBotPRs

SpecDependabot == InitDependabot /\ [][NextDependabot]_vars

InitImports ==
    /\ \E fs \in Projects : im = [ImPending EXCEPT !.files = fs]
    /\ PmIdle /\ SvIdle /\ AuIdle /\ ExIdle /\ AnIdle /\ QaIdle /\ OdIdle /\ OvIdle /\ RkIdle
    /\ DbIdle /\ DpIdle

AnalyzeImports ==
    /\ ~im.done
    /\ im' = [im EXCEPT !.done = TRUE, !.analysis = analyzeImports(TargetPackage, im.files)]
    /\ UNCHANGED <<pmVars, svVars, auVars, exVars, an, qa, od, ov, rk, db, dp>>

NextImports == AnalyzeImports

SpecImports == InitImports /\ [][NextImports]_vars

InitSecurity ==
    /\ auOutput \in AuditOutputs
    /\ auResult = AuPending
    /\ dp = DpPending
    /\ PmIdle /\ SvIdle /\ ExIdle /\ AnIdle /\ QaIdle /\ OdIdle /\ OvIdle /\ RkIdle /\ DbIdle /\ ImIdle

\* parsers.parseAuditOutput of the deps analyzer on the output the audit
\* analyzer's parser of the same package manager has read
DepsParseAuditOutput ==
    /\ auResult.parser # "none" /\ dp.pm = "none"
    /\ \E pm \in {"npm", "bun", "pnpm", "yarn"} :
          /\ ParserOf(pm) = auResult.parser
          /\ dp' = [pm |-> pm, res |-> depsParseAuditOutput(pm, auOutput)]
    /\ UNCHANGED <<pmVars, svVars, auVars, exVars, an, qa, od, ov, rk, db, im>>

NextSecurity == ParseNpmAudit \/ ParsePnpmAudit \/ ParseYarnAudit \/ DepsParseAuditOutput

SpecSecurity == InitSecurity /\ [][NextSecurity]_vars

----------------------------------------------------------------------------
(* Properties                                                              *)

\* --- properties of the detector ---

\* the lockfile names that count as evidence for a manager
LockfilesOf(m) == IF m = "bun" THEN {"bun.lock", "bun.lockb"}
                  ELSE IF m = "pnpm" THEN {"pnpm-lock.yaml"}
                  ELSE IF m = "yarn" THEN {"yarn.lock"}
                  ELSE {"package-lock.json"}

PresentManagers == {m \in PackageManagerName : LockfilesOf(m) \cap pmFiles # {}}

PriorityRank(m) == IF m = "bun" THEN 1 ELSE IF m = "pnpm" THEN 2 ELSE IF m = "yarn" THEN 3 ELSE 4

HighestPriorityPresent ==
    CHOOSE m \in PresentManagers : \A o \in PresentManagers : PriorityRank(m) <= PriorityRank(o)

\* the manifest field reads <manager>@<rest>, the format parseCorepackSpec documents
FieldNamesManager ==
    /\ pmManifest.kind = "parsed" /\ pmManifest.hasField
    /\ Len(pmManifest.tokens) >= 2
    /\ pmManifest.tokens[1] \in PackageManagerName
    /\ pmManifest.tokens[2] = "@"

\* C1: with a lockfile present the name is the highest-priority manager among the
\* present lockfiles whatever the packageManager field says; with no lockfile and
\* a field of the form name@version naming one of the four managers the name is
\* that manager and the lockfile is absent; otherwise the name is npm.
C1_PriorityRule ==
    pmResult.done =>
        IF PresentManagers # {}
        THEN pmResult.info.name = HighestPriorityPresent
        ELSE IF FieldNamesManager
             THEN /\ pmResult.info.name = pmManifest.tokens[1]
                  /\ pmResult.info.lockfile = NoLockfile
             ELSE pmResult.info.name = "npm"

\* two managers' lockfiles present and the manifest names a third, lower one
C1_Witness ==
    /\ pmResult.done
    /\ pmFiles = {"pnpm-lock.yaml", "yarn.lock"}
    /\ FieldNamesManager /\ pmManifest.tokens[1] = "bun"
    /\ pmResult.info.name = "pnpm"

\* C10: hasMultipleLockfiles is true exactly when lockfiles of two or more distinct
\* managers are present (both bun lockfiles alone are one manager),
\* detectedLockfiles holds exactly one existing lockfile per detected manager, and
\* the selected lockfile is the first entry of detectedLockfiles.
C10_MultipleLockfiles ==
    pmResult.done =>
        LET d == pmResult.info.detectedLockfiles
        IN  /\ pmResult.info.hasMultipleLockfiles <=> Cardinality(PresentManagers) >= 2
            /\ Len(d) = Cardinality(PresentManagers)
            /\ \A m \in PresentManagers :
                  Cardinality({i \in 1..Len(d) : d[i] \in LockfilesOf(m) \cap pmFiles}) = 1
            /\ IF d = <<>> THEN pmResult.info.lockfile = NoLockfile
                           ELSE pmResult.info.lockfile = d[1]

\* both bun lockfiles together with yarn.lock
C10_Witness ==
    /\ pmResult.done
    /\ pmFiles = {"bun.lock", "bun.lockb", "yarn.lock"}
    /\ pmResult.info.hasMultipleLockfiles
    /\ pmResult.info.detectedLockfiles = <<"bun.lock", "yarn.lock">>
    /\ pmResult.info.lockfile = "bun.lock"
\* C11: with no lockfile present and a packageManager field that is missing, not
\* of the form name@version, or names a manager outside bun, pnpm, yarn and npm,
\* the result is npm with the lockfile absent, detectedLockfiles empty,
\* hasMultipleLockfiles false and corepackSpec absent.
C11_FallbackAllAbsent ==
    (pmResult.done /\ pmFiles = {} /\ ~FieldNamesManager) =>
        /\ pmResult.info.name = "npm"
        /\ pmResult.info.lockfile = NoLockfile
        /\ pmResult.info.detectedLockfiles = <<>>
        /\ ~pmResult.info.hasMultipleLockfiles
        /\ pmResult.info.corepackSpec.isNull

\* --- properties of the comparator ---

\* C8: on valid versions getUpdateType is major whenever latest's major is greater,
\* minor when the majors are equal and latest's minor is greater, patch when major
\* and minor are equal and latest's patch is greater, and none otherwise (equal
\* triples with different prerelease or build tags included); none also when
\* either input is not a valid version.
C8_UpdateType ==
    svUpdate # "pending" =>
        LET c == svCurrent
            l == svLatest
        IN  IF ~c.valid \/ ~l.valid THEN svUpdate = "none"
            ELSE IF l.major > c.major THEN svUpdate = "major"
            ELSE IF l.major = c.major /\ l.minor > c.minor THEN svUpdate = "minor"
            ELSE IF l.major = c.major /\ l.minor = c.minor /\ l.patch > c.patch
                 THEN svUpdate = "patch"
            ELSE svUpdate = "none"

\* a major increase with lower minor and patch, tags on both sides
C8_Witness ==
    /\ svUpdate = "major"
    /\ svCurrent.valid /\ svLatest.valid
    /\ svLatest.major > svCurrent.major
    /\ svLatest.minor < svCurrent.minor /\ svLatest.patch < svCurrent.patch
    /\ svCurrent.chars[1] = "v" /\ svLatest.chars[Len(svLatest.chars)] = "7"

\* C9: for valid a and b, compareSemver(a, b) = -compareSemver(b, a) and
\* compareSemver(a, a) = 0.
C9_Antisymmetry ==
    (svCmp.done /\ svCurrent.valid /\ svLatest.valid) =>
        /\ svCmp.ab = -svCmp.ba
        /\ svCmp.aa = 0

\* two valid versions that differ only in the patch number
C9_Witness ==
    /\ svCmp.done /\ svCurrent.valid /\ svLatest.valid
    /\ svCurrent.major = svLatest.major /\ svCurrent.minor = svLatest.minor
    /\ svCurrent.patch < svLatest.patch
    /\ svCmp.ab = -1 /\ svCmp.ba = 1

\* C28: for valid current and latest, getUpdateType(current, latest) is other
\* than none exactly when compareSemver(current, latest) is -1.
C28_UpdateIffOlder ==
    (svUpdate # "pending" /\ svCmp.done /\ svCurrent.valid /\ svLatest.valid) =>
        (svUpdate # "none" <=> svCmp.ab = -1)

\* a lower major with a higher minor and patch: no update, and current compares
\* as the greater
C28_Witness ==
    /\ svUpdate = "none" /\ svCmp.done /\ svCmp.ab = 1
    /\ svCurrent.valid /\ svLatest.valid
    /\ svLatest.major < svCurrent.major
    /\ svLatest.minor > svCurrent.minor /\ svLatest.patch > svCurrent.patch

\* a minor update: current compares as the smaller
C28_UpdateWitness ==
    /\ svUpdate = "minor" /\ svCmp.done /\ svCmp.ab = -1
    /\ svCurrent.valid /\ svLatest.valid

\* the same triple with a prerelease tag on one side only: no update, equal
C28_PrereleaseWitness ==
    /\ svUpdate = "none" /\ svCmp.done /\ svCmp.ab = 0
    /\ svCurrent.valid /\ svLatest.valid
    /\ svCurrent.major = svLatest.major /\ svCurrent.minor = svLatest.minor
    /\ svCurrent.patch = svLatest.patch
    /\ ("-" \in Range(svCurrent.chars)) # ("-" \in Range(svLatest.chars))

\* --- properties of the audit parsers ---

RECURSIVE EffectsWalk(_, _, _)
\* the packages met when following first effects entries from a package toward
\* the root: the package itself first, the root-most package last
EffectsWalk(name, seen, allVulns) ==
    LET found == LookupVuln(allVulns, name)
    IN  IF name \in seen \/ found = <<>> \/ found[1].effects = <<>> THEN <<name>>
        ELSE <<name>> \o EffectsWalk(found[1].effects[1], seen \cup {name}, allVulns)

\* the chain of a package written root-most first, the package itself last
RootFirstChain(name, allVulns) == Join(Reverse(EffectsWalk(name, {}, allVulns)), " > ")

\* C2: for an npm vulnerability with a non-empty effects array the path is the
\* chain followed through effects toward the root, root-most package first and
\* the vulnerable package last, joined by " > "; with empty effects the path is
\* the package's own name.
C2_PathRootFirst ==
    (auResult.parser = "npm" /\ ~auResult.res.isNull) =>
        LET allVulns == JsonParse(auOutput).val.vulns
        IN  \A i \in 1..Len(auResult.res.vulnerabilities) :
                LET v == auResult.res.vulnerabilities[i]
                    entry == LookupVuln(allVulns, v.package)[1]
                IN  IF entry.effects = <<>> THEN v.path = <<v.package>>
                    ELSE v.path = RootFirstChain(v.package, allVulns)

\* C3: every summary a parser returns has total >= critical + high + moderate + low.
C3_TotalCoversBuckets ==
    (auResult.parser # "none" /\ ~auResult.res.isNull) =>
        LET sm == auResult.res.summary
        IN  sm.total >= sm.critical + sm.high + sm.moderate + sm.low

\* the entries of the npm report whose via is not exactly one bare string
ReportedEntries(entries) ==
    SelectSeq(entries, LAMBDA e : ~(Len(e.via) = 1 /\ e.via[1].isString))

\* C13: parseNpmAudit leaves out of the vulnerability list every entry whose via
\* is exactly one bare string reference and emits every other entry, in order; the
\* summary counts are the metadata's counts, whether or not entries were left out.
C13_PassThroughOmitted ==
    (auResult.parser = "npm" /\ ~auResult.res.isNull) =>
        LET report   == JsonParse(auOutput).val
            expected == ReportedEntries(report.vulns)
            emitted  == auResult.res.vulnerabilities
        IN  /\ [i \in 1..Len(emitted) |-> emitted[i].package]
                  = [i \in 1..Len(expected) |-> expected[i].name]
            /\ auResult.res.summary =
                  [critical |-> OrZero(report.meta.critical), high |-> OrZero(report.meta.high),
                   moderate |-> OrZero(report.meta.moderate), low |-> OrZero(report.meta.low),
                   total |-> OrZero(report.meta.total)]

\* "c" (via one bare string) is left out, "a" (a string and an advisory) is kept,
\* and the summary still counts two
C13_Witness ==
    /\ auResult.parser = "npm" /\ ~auResult.res.isNull
    /\ Len(JsonParse(auOutput).val.vulns) = 3
    /\ JsonParse(auOutput).val.vulns[1].via = <<ViaString, ViaAdvisory>>
    /\ [i \in 1..Len(auResult.res.vulnerabilities) |-> auResult.res.vulnerabilities[i].package]
          = <<"a", "b">>
    /\ auResult.res.summary.total = 2

\* C14: every vulnerability a parser emits with a fixVersion has fixAvailable
\* true; for npm the fixVersion is present only when the report's fixAvailable is
\* an object carrying a version (and is that version), never when it is the
\* boolean true.
C14_FixVersionImpliesAvailable ==
    (auResult.parser # "none" /\ ~auResult.res.isNull) =>
        \A i \in 1..Len(auResult.res.vulnerabilities) :
            LET v == auResult.res.vulnerabilities[i]
            IN  /\ ~v.fixVersion.isNull => v.fixAvailable
                /\ auResult.parser = "npm" =>
                      LET fix == LookupVuln(JsonParse(auOutput).val.vulns, v.package)[1].fixAvailable
                      IN  ~v.fixVersion.isNull =>
                             /\ fix.kind = "object" /\ fix.version # <<>>
                             /\ v.fixVersion.chars = fix.version

\* npm entry "a" with fixAvailable {version: "5.0.0"} is emitted with that version
C14_Witness ==
    /\ auResult.parser = "npm" /\ ~auResult.res.isNull
    /\ \E i \in 1..Len(auResult.res.vulnerabilities) :
          /\ auResult.res.vulnerabilities[i].package = "a"
          /\ auResult.res.vulnerabilities[i].fixAvailable
          /\ auResult.res.vulnerabilities[i].fixVersion = SomeStr(<<"5", ".", "0", ".", "0">>)

\* the lines of a yarn stream of the given type, by position
YarnLinesOfType(t) ==
    {i \in 1..Len(auOutput.values) : auOutput.values[i].json /\ auOutput.values[i].type = t}

\* C15: parseYarnAudit takes the summary from the auditSummary line (the last one
\* when there are several) wherever it stands in the stream and however many
\* advisories there are; with no auditSummary line and at least one advisory the
\* summary counts the returned vulnerabilities by severity, total being their number.
C15_YarnSummarySource ==
    (auResult.parser = "yarn" /\ auOutput.shape = "ndjson") =>
        LET sums == YarnLinesOfType("auditSummary")
            advs == YarnLinesOfType("auditAdvisory")
            vs   == auResult.res.vulnerabilities
            sm   == auResult.res.summary
            Bucket(sev) == Cardinality({i \in 1..Len(vs) : vs[i].severity = sev})
        IN  /\ sums # {} =>
                 LET last == CHOOSE i \in sums : \A j \in sums : j <= i
                     meta == auOutput.values[last].sum
                 IN  /\ ~auResult.res.isNull
                     /\ Len(vs) = Cardinality(advs)
                     /\ sm.critical = OrZero(meta.critical) /\ sm.high = OrZero(meta.high)
                     /\ sm.moderate = OrZero(meta.moderate) /\ sm.low = OrZero(meta.low)
                     /\ sm.total = OrZero(meta.critical) + OrZero(meta.high)
                                   + OrZero(meta.moderate) + OrZero(meta.low) + OrZero(meta.info)
            /\ (sums = {} /\ advs # {}) =>
                 /\ ~auResult.res.isNull
                 /\ Len(vs) = Cardinality(advs)
                 /\ sm.critical = Bucket("critical") /\ sm.high = Bucket("high")
                 /\ sm.moderate = Bucket("moderate") /\ sm.low = Bucket("low")
                 /\ sm.total = Len(vs)

\* a stream whose summary line comes before two advisories: the summary is the
\* line's, not the count of the advisories
C15_Witness ==
    /\ auResult.parser = "yarn" /\ auOutput.shape = "ndjson"
    /\ Len(auOutput.values) = 3
    /\ YarnLinesOfType("auditSummary") = {1}
    /\ YarnLinesOfType("auditAdvisory") = {2, 3}
    /\ Len(auResult.res.vulnerabilities) = 2
    /\ auResult.res.summary.total = 2
    /\ auResult.res.summary.critical = 0
    /\ auResult.res.vulnerabilities[1].severity = "critical"

\* a stream of advisories only: the summary is synthesized
C15_SynthesizedWitness ==
    /\ auResult.parser = "yarn" /\ auOutput.shape = "ndjson"
    /\ YarnLinesOfType("auditSummary") = {}
    /\ YarnLinesOfType("auditAdvisory") = {1, 2}
    /\ auResult.res.summary.total = 2
    /\ auResult.res.summary.critical = 1

\* the single JSON object of a pnpm payload
PnpmPayload == auOutput.values[1]

\* C16: parsePnpmAudit returns absent whenever the payload has an error field, and
\* a result with an empty vulnerability list when the payload has valid metadata
\* and no advisories.
C16_PnpmErrorIsAbsent ==
    (auResult.parser = "pnpm" /\ auOutput \in CountReports) =>
        /\ PnpmPayload.hasError => auResult.res.isNull
        /\ (~PnpmPayload.hasError /\ PnpmPayload.meta.present /\ PnpmPayload.advisories = <<>>) =>
              /\ ~auResult.res.isNull
              /\ auResult.res.vulnerabilities = <<>>

\* an error payload that also carries metadata and an advisory is still absent
C16_Witness ==
    /\ auResult.parser = "pnpm" /\ auOutput \in CountReports
    /\ PnpmPayload.hasError /\ PnpmPayload.meta.present /\ PnpmPayload.advisories # <<>>
    /\ auResult.res.isNull

\* a clean payload gives a result with no vulnerabilities
C16_CleanWitness ==
    /\ auResult.parser = "pnpm" /\ auOutput \in CountReports
    /\ ~PnpmPayload.hasError /\ PnpmPayload.meta.present /\ PnpmPayload.advisories = <<>>
    /\ ~auResult.res.isNull /\ auResult.res.vulnerabilities = <<>>

\* --- properties of the executor ---

ExSettled == ex.phase \in {"returned", "threw"}

\* C5: for every interleaving of child completion and timer expiry exec settles
\* exactly once; if the timer expires before output and exit status have been
\* collected the child is killed and exec fails with the timeout error; if the
\* child's output and exit status are collected first exec returns
\* {stdout, stderr, exitCode} as a normal result even when exitCode is not zero,
\* the child is never killed and the timer is cancelled.
C5_SettlesOnce ==
    /\ [](/\ ex.settled <= 1
          /\ ExSettled <=> ex.settled = 1
          /\ ex.timer = "fired" =>
                ex.killed /\ ex.phase = "threw" /\ ex.error.kind = "timeout"
          /\ (ex.inner = "done" /\ ex.timer # "fired") =>
                /\ ex.phase = "returned"
                /\ ex.result = [stdout |-> exEnv.stdout, stderr |-> exEnv.stderr,
                                exitCode |-> exEnv.exitCode]
                /\ ~ex.killed
                /\ ex.timer = "cleared"
          /\ ex.phase = "returned" => (~ex.killed /\ ex.timer = "cleared"))
    /\ ((ex.phase = "racing") ~> ExSettled)

\* the child ended with a non-zero exit code before the timer expired
C5_Witness ==
    /\ ex.phase = "returned" /\ ex.result.exitCode # 0
    /\ ex.result.stdout = TextOut /\ ex.timer = "cleared" /\ ~ex.killed

\* C6: when the child process cannot be spawned exec fails with the "Failed to
\* execute command" error that carries the spawn error as its cause, which is
\* not the timeout error.
C6_SpawnFailureWrapped ==
    (~exEnv.spawnOk /\ ex.phase = "threw") =>
        ex.error.kind = "failed" /\ ex.error.hasCause

\* --- properties of the analyzers ---

AnCommandFailed == ex.phase = "threw"

AnFinished == an.phase \in {"returned", "threw"}

\* C7: when the outdated or audit command fails to execute or times out,
\* analyzeDeps and analyzeAudit return their empty result (no outdated packages;
\* no vulnerabilities and an all-zero summary) instead of failing, and they never
\* run the command again.
C7_FailureIsEmptyResult ==
    /\ an.runs.outdated <= 1 /\ an.runs.audit <= 1
    /\ (AnFinished /\ AnCommandFailed) =>
          /\ an.phase = "returned"
          /\ IF an.which = "audit" THEN an.audit = EmptyAudit
             ELSE an.deps.packages = <<>> /\ an.deps.outdated = 0

\* --- properties of the quality scorer ---

\* C4: every MetricBreakdown of a report assessQuality returns has a score that
\* is an integer from 0 to 100, whatever the analyzers returned.
C4_ScoresInRange ==
    qa.phase = "returned" =>
        \A m \in MetricNames : qa.report.breakdown[m].score \in 0..100

\* the penalty of a summary: 25 per critical, 15 per high, 5 per moderate, 2 per low
SecurityPenalty(summary) ==
    25 * summary.critical + 15 * summary.high + 5 * summary.moderate + 2 * summary.low

\* C18: the security score of a report is max(0, 100 - penalty) of the counts the
\* audit gave; it is 100 exactly when the four counts are zero and never negative.
C18_SecurityScoreFormula ==
    qa.phase = "returned" =>
        LET summary == qa.audit.value.summary
            score   == qa.report.breakdown.security.score
        IN  /\ SecurityPenalty(summary) <= 100 => score = 100 - SecurityPenalty(summary)
            /\ SecurityPenalty(summary) > 100 => score = 0
            /\ score >= 0
            /\ score = 100 <=> (/\ summary.critical = 0 /\ summary.high = 0
                                /\ summary.moderate = 0 /\ summary.low = 0)

\* MaxVulns critical and one high vulnerability: a penalty above 100, a score of 0
C18_Witness ==
    /\ qa.phase = "returned"
    /\ qa.audit.value.summary.critical = MaxVulns /\ qa.audit.value.summary.high = 1
    /\ SecurityPenalty(qa.audit.value.summary) > 100
    /\ qa.report.breakdown.security.score = 0

\* one vulnerability of each severity: 100 - 47
C18_PartialWitness ==
    /\ qa.phase = "returned"
    /\ SecurityPenalty(qa.audit.value.summary) = 47
    /\ qa.report.breakdown.security.score = 53

\* C19: the grade of every report assessQuality returns follows from its score:
\* A from 90, B for 80..89, C for 70..79, D for 60..69, F below 60.
C19_GradeFromScore ==
    qa.phase = "returned" =>
        /\ qa.report.score >= 90 => qa.report.grade = "A"
        /\ qa.report.score \in 80..89 => qa.report.grade = "B"
        /\ qa.report.score \in 70..79 => qa.report.grade = "C"
        /\ qa.report.score \in 60..69 => qa.report.grade = "D"
        /\ qa.report.score < 60 => qa.report.grade = "F"

\* a report that scores exactly 80 is graded B
C19_Witness ==
    qa.phase = "returned" /\ qa.report.score = 80 /\ qa.report.grade = "B"

\* the analyzers of the call with their promise's state
AnalyzerState(name) ==
    CASE name = "deps" -> qa.deps.state
      [] name = "audit" -> qa.audit.state
      [] name = "coverage" -> qa.coverage.state
      [] name = "tsconfig" -> qa.tsconfig.state
      [] name = "linting" -> qa.linting.state

SettledAnalyzers == {n \in AnalyzerNames : AnalyzerState(n) # "pending"}

\* C25: assessQuality starts its five analyses before any of them completes;
\* it builds the report only when all five have completed, and the report is the
\* one their five results give whatever the order they completed in; when one of
\* them fails the call fails and no report is built.
C25_AllOrNothing ==
    /\ SettledAnalyzers # {} => qa.started = AnalyzerNames
    /\ qa.phase = "returned" <=>
          (qa.started = AnalyzerNames /\ \A n \in AnalyzerNames : AnalyzerState(n) = "done")
    /\ qa.phase = "returned" =>
          qa.report = QualityReport(QualityBreakdown(qa.deps.value, qa.audit.value,
                                                     qa.coverage.value, qa.tsconfig.value,
                                                     qa.linting.value))
    /\ qa.phase # "returned" => qa.report = NoReport
    /\ (\E n \in AnalyzerNames : AnalyzerState(n) = "failed") <=> qa.phase = "threw"

\* the audit failed while linting was still running, the other three had
\* completed: the call has failed, without a report
C25_Witness ==
    /\ qa.phase = "threw"
    /\ qa.audit.state = "failed" /\ qa.linting.state = "pending"
    /\ qa.deps.state = "done" /\ qa.coverage.state = "done" /\ qa.tsconfig.state = "done"
    /\ qa.report = NoReport

\* four analyzers have completed and the fifth has not: no report yet
C25_WaitingWitness ==
    /\ qa.phase = "awaiting"
    /\ Cardinality(SettledAnalyzers) = 4
    /\ qa.report = NoReport

\* the elements of a path joined with " > "
PathParts(path) == [i \in 1..((Len(path) + 1) \div 2) |-> path[2 * i - 1]]

\* the vulnerabilities map of the npm report that was parsed
ParsedNpmVulns == JsonParse(auOutput).val.vulns

\* what the walk went through: every element of the path but the one it stopped at
ExpandedParts(path) == SubSeq(PathParts(path), 1, Len(PathParts(path)) - 1)

\* C26: buildNpmPath returns for every vulnerabilities map, with cycles, with
\* self-reference and with effects that name packages without an entry; it
\* expands each package name at most once, so the path has at most one element
\* more than the map has entries.
C26_PathBounded ==
    (auResult.parser = "npm" /\ ~auResult.res.isNull) =>
        /\ \A i \in 1..Len(ParsedNpmVulns) :
              LET path == buildNpmPath(ParsedNpmVulns[i], ParsedNpmVulns)
              IN  /\ Len(PathParts(path)) <= Len(ParsedNpmVulns) + 1
                  /\ \A j, k \in 1..Len(ExpandedParts(path)) :
                        j # k => ExpandedParts(path)[j] # ExpandedParts(path)[k]
                  /\ \A j \in 1..Len(ExpandedParts(path)) :
                        LookupVuln(ParsedNpmVulns, ExpandedParts(path)[j]) # <<>>
        /\ \A i \in 1..Len(auResult.res.vulnerabilities) :
              Len(PathParts(auResult.res.vulnerabilities[i].path)) <= Len(ParsedNpmVulns) + 1

\* a cycle through every entry: the path names every package once and the
\* first one twice
C26_Witness ==
    /\ auResult.parser = "npm" /\ ~auResult.res.isNull
    /\ \E i \in 1..Len(auResult.res.vulnerabilities) :
          LET parts == PathParts(auResult.res.vulnerabilities[i].path)
          IN  /\ Len(parts) = Len(ParsedNpmVulns) + 1
              /\ parts[1] = parts[Len(parts)]

\* an entry whose first effect is itself
C26_SelfReferenceWitness ==
    /\ auResult.parser = "npm" /\ ~auResult.res.isNull
    /\ \E i \in 1..Len(auResult.res.vulnerabilities) :
          LET v == auResult.res.vulnerabilities[i]
          IN  PathParts(v.path) = <<v.package, v.package>>

\* an entry whose first effect has no entry of its own
C26_UnlistedWitness ==
    /\ auResult.parser = "npm" /\ ~auResult.res.isNull
    /\ \E i \in 1..Len(auResult.res.vulnerabilities) :
          LET parts == PathParts(auResult.res.vulnerabilities[i].path)
          IN  parts[Len(parts)] = UnlistedName

\* the two readings of the output agree: both absent, or both present with
\* the same four counts
SameSecuritySummary ==
    /\ dp.res.isNull <=> auResult.res.isNull
    /\ ~dp.res.isNull =>
          /\ dp.res.critical = auResult.res.summary.critical
          /\ dp.res.high = auResult.res.summary.high
          /\ dp.res.moderate = auResult.res.summary.moderate
          /\ dp.res.low = auResult.res.summary.low

\* C27: for the same package manager and the same raw audit output, the deps
\* analyzer's security summary has the critical, high, moderate and low counts
\* of the audit analyzer's summary, and is absent exactly when the audit
\* analyzer's result is absent.
C27_SameSecuritySummary == dp.pm # "none" => SameSecuritySummary

\* C27, for the output of npm, bun and pnpm: there the two readings agree
C27_SameSecuritySummaryJson ==
    (dp.pm \in {"npm", "bun", "pnpm"}) => SameSecuritySummary

\* C27, for yarn streams with exactly one auditSummary line: the two agree
C27_SameSecuritySummaryOneLine ==
    (dp.pm = "yarn" /\ Cardinality(YarnLinesOfType("auditSummary")) = 1)
        => SameSecuritySummary

\* pnpm output with metadata read by both analyzers
C27_JsonWitness ==
    /\ dp.pm = "pnpm" /\ ~dp.res.isNull /\ ~auResult.res.isNull
    /\ dp.res.moderate = MaxCount /\ auResult.res.summary.moderate = MaxCount

\* a yarn stream of advisories without a summary line: the audit analyzer
\* counts the advisories, the deps analyzer has no summary
C27_AdvisoriesOnlyWitness ==
    /\ dp.pm = "yarn" /\ dp.res.isNull
    /\ ~auResult.res.isNull /\ auResult.res.summary.total > 0

\* a yarn stream with two different summary lines: each analyzer reads another
C27_TwoSummariesWitness ==
    /\ dp.pm = "yarn" /\ ~dp.res.isNull /\ ~auResult.res.isNull
    /\ dp.res.moderate # auResult.res.summary.moderate

\* C29: no assessment of a minor, patch or none update is critical: the usage,
\* critical-path and test factors are at most 30, 20 and 10, so such an
\* assessment scores at most 75; every score lies in 0..100.
C29_NonMajorNeverCritical ==
    (rk.mode = "assess" /\ rk.done /\ ~rk.outcome.threw) =>
        LET a == rk.outcome.assessment
        IN  /\ a.factors.usageScope.score \in 0..30
            /\ a.factors.criticalPaths.score \in 0..20
            /\ a.factors.testCoverage.score \in 0..10
            /\ a.updateType \in {"minor", "patch", "none"} =>
                  /\ a.factors.updateType.score <= 15
                  /\ a.riskScore <= 75
                  /\ a.riskLevel # "critical"
            /\ a.riskScore \in 0..100

\* the worst minor update: more than a hundred importing files on every
\* critical path, none with tests; 15 + 30 + 20 + 10 is 75, high
C29_Witness ==
    /\ rk.mode = "assess" /\ rk.done /\ ~rk.outcome.threw
    /\ rk.call.files.count > 100
    /\ rk.outcome.assessment.updateType = "minor"
    /\ rk.outcome.assessment.factors.usageScope.score = 30
    /\ rk.outcome.assessment.factors.criticalPaths.score = 20
    /\ rk.outcome.assessment.factors.testCoverage.score = 10
    /\ rk.outcome.assessment.riskScore = 75
    /\ rk.outcome.assessment.riskLevel = "high"

\* the worst major update scores 100 and is critical
C29_MajorCriticalWitness ==
    /\ rk.mode = "assess" /\ rk.done /\ ~rk.outcome.threw
    /\ rk.outcome.assessment.updateType = "major"
    /\ rk.outcome.assessment.riskScore = 100
    /\ rk.outcome.assessment.riskLevel = "critical"

\* the report recommends to turn on strict
StrictRecommended ==
    \E i \in 1..Len(qa.report.recommendations) :
        qa.report.recommendations[i] =
            Recommendation("medium", "Enable \"strict\": true in tsconfig.json")

\* C30: whenever a tsconfig exists and its strictness score is below 40 (strict
\* is then off), the recommendations of assessQuality include the one to enable
\* "strict": true in tsconfig.json.
C30_StrictRecommended ==
    (qa.phase = "returned" /\ qa.tsconfig.value.exists /\ qa.tsconfig.value.score < 40) =>
        /\ ~qa.tsconfig.value.strict
        /\ StrictRecommended

\* C30, for scores from 1 to 39: there the recommendation is made; and it is
\* made for no other score
C30_StrictRecommendedAboveZero ==
    qa.phase = "returned" =>
        /\ (qa.tsconfig.value.exists /\ qa.tsconfig.value.score \in 1..39) =>
              (~qa.tsconfig.value.strict /\ StrictRecommended)
        /\ StrictRecommended =>
              (qa.tsconfig.value.exists /\ qa.tsconfig.value.score \in 1..39)

\* a tsconfig.json that turns on none of the scored flags: score 0, and no
\* recommendation about strict
C30_ZeroScoreWitness ==
    /\ qa.phase = "returned"
    /\ qa.tsconfig.value.exists /\ qa.tsconfig.value.score = 0
    /\ ~StrictRecommended

\* a tsconfig.json with one of the lesser flags on: the recommendation is made
C30_LowScoreWitness ==
    /\ qa.phase = "returned"
    /\ qa.tsconfig.value.exists /\ qa.tsconfig.value.score \in 1..39
    /\ StrictRecommended

\* --- properties of the outdated normalizers ---

\* an entry or row with both versions given as strings, and a name
WellFormedRow(r) == r.name # "" /\ IsJsString(r.current) /\ IsJsString(r.latest)

\* a yarn line that is a table with its three columns and some well-formed row
UsableYarnLine(l) ==
    /\ l.kind = "table" /\ l.hasData
    /\ {"Package", "Current", "Latest"} \subseteq Range(l.head)
    /\ \E i \in 1..Len(l.body) : WellFormedRow(l.body[i])

\* the input is not a report in the normalizer's format: it is empty, is text
\* that is not JSON, is JSON of the wrong shape (a scalar, another manager's
\* report, an object with an entry whose versions are not strings), or is a
\* table without a well-formed data row
InvalidOutdated(pm, out) ==
    \/ out.shape # "table"
    \/ IF pm \in {"npm", "pnpm"}
       THEN out.fmt # "npm" \/ \E i \in 1..Len(out.values) : ~WellFormedRow(out.values[i])
       ELSE IF pm = "yarn"
       THEN out.fmt # "yarn" \/ \A i \in 1..Len(out.values) : ~UsableYarnLine(out.values[i])
       ELSE out.fmt # "bun"
            \/ \A i \in 1..Len(out.values) :
                  out.values[i].kind # "row" \/ ~WellFormedRow(out.values[i])

OvCalls == {c \in {ov.first, ov.second} : c.called}

\* sum(score_i * weight_i) and sum(weight_i) of a breakdown, written out
WeightedSum(b) ==
    b.dependencyFreshness.score * b.dependencyFreshness.weight
    + b.security.score * b.security.weight
    + b.testCoverage.score * b.testCoverage.weight
    + b.typescriptStrictness.score * b.typescriptStrictness.weight
    + b.linting.score * b.linting.weight
    + b.deadCode.score * b.deadCode.weight

WeightSum(b) ==
    b.dependencyFreshness.weight + b.security.weight + b.testCoverage.weight
    + b.typescriptStrictness.weight + b.linting.weight + b.deadCode.weight

HasStandardWeights(b) == \A m \in MetricNames : b[m].weight = WEIGHTS[m]

\* x has security at 0 and metric m at 100, y has them the other way round, and
\* they agree on everything else
LoweredSecurityAgainst(x, y, m) ==
    /\ HasStandardWeights(x.breakdown) /\ HasStandardWeights(y.breakdown)
    /\ WEIGHTS[m] = 10
    /\ x.breakdown.security.score = 0 /\ x.breakdown[m].score = 100
    /\ y.breakdown.security.score = 100 /\ y.breakdown[m].score = 0
    /\ \A k \in MetricNames \ {"security", m} : x.breakdown[k] = y.breakdown[k]

\* C17: calculateOverallScore is the weighted mean of the six scores rounded to
\* the nearest integer (halves up); six equal scores s give s; a breakdown with
\* security lowered from 100 to 0 scores strictly less than the same breakdown
\* with a weight-10 metric lowered from 100 to 0 instead.
C17_WeightedMean ==
    /\ \A c \in OvCalls :
          /\ (2 * c.score - 1) * WeightSum(c.breakdown) <= 2 * WeightedSum(c.breakdown)
          /\ 2 * WeightedSum(c.breakdown) < (2 * c.score + 1) * WeightSum(c.breakdown)
          /\ \A s \in ScoreChoices :
                (\A m \in MetricNames : c.breakdown[m].score = s) => c.score = s
    /\ \A x \in OvCalls, y \in OvCalls, m \in MetricNames :
          LoweredSecurityAgainst(x, y, m) => x.score < y.score

\* all at 100 except security at 0 scores 75; all at 100 except linting at 0 scores 90
C17_Witness ==
    /\ ov.first.called /\ ov.second.called
    /\ LoweredSecurityAgainst(ov.first, ov.second, "linting")
    /\ \A k \in MetricNames \ {"security", "linting"} : ov.first.breakdown[k].score = 100
    /\ ov.first.score = 75 /\ ov.second.score = 90

\* six scores of 50 give 50, with either set of weights
C17_EqualScoresWitness ==
    /\ ov.first.called
    /\ \A m \in MetricNames : ov.first.breakdown[m].score = 50
    /\ ov.first.score = 50

\* --- properties of the risk scorer ---
\* the level the thresholds give: 0..25 low, 26..50 medium, 51..75 high, above critical
LevelByThresholds(score) ==
    CASE score \in 0..25  -> "low"
      [] score \in 26..50 -> "medium"
      [] score \in 51..75 -> "high"
      [] OTHER            -> "critical"

\* C20: in every RiskAssessment that assessRisk returns, riskScore is the plain sum
\* of the four factor scores and riskLevel follows from riskScore by the
\* thresholds 0..25 low, 26..50 medium, 51..75 high, 76..100 critical; getRiskLevel
\* gives the same levels for every score from 0 to 100.
C20_RiskScoreAndLevel ==
    /\ (rk.mode = "assess" /\ rk.done /\ ~rk.outcome.threw) =>
          LET a == rk.outcome.assessment
          IN  /\ a.riskScore = a.factors.updateType.score + a.factors.usageScope.score
                               + a.factors.criticalPaths.score + a.factors.testCoverage.score
              /\ a.riskScore \in 0..100
              /\ a.riskLevel = LevelByThresholds(a.riskScore)
    /\ (rk.mode = "level" /\ rk.done /\ rk.score <= 100) =>
          rk.level = LevelByThresholds(rk.score)

\* a minor update of a package used in five files, none tested: 15 + 10 + 0 + 10
\* is 35, medium
C20_Witness ==
    /\ rk.mode = "assess" /\ rk.done /\ ~rk.outcome.threw
    /\ rk.outcome.assessment.updateType = "minor"
    /\ rk.outcome.assessment.factors.usageScope.score = 10
    /\ rk.outcome.assessment.factors.criticalPaths.score = 0
    /\ rk.outcome.assessment.factors.testCoverage.score = 10
    /\ rk.outcome.assessment.riskScore = 35
    /\ rk.outcome.assessment.riskLevel = "medium"

\* the boundary scores: an assessment of exactly 25, 50 and 75, a direct call with 26
C20_Score25Witness ==
    rk.mode = "assess" /\ rk.done /\ ~rk.outcome.threw
    /\ rk.outcome.assessment.riskScore = 25 /\ rk.outcome.assessment.riskLevel = "low"

C20_Score50Witness ==
    rk.mode = "assess" /\ rk.done /\ ~rk.outcome.threw
    /\ rk.outcome.assessment.riskScore = 50 /\ rk.outcome.assessment.riskLevel = "medium"

C20_Score75Witness ==
    rk.mode = "assess" /\ rk.done /\ ~rk.outcome.threw
    /\ rk.outcome.assessment.riskScore = 75 /\ rk.outcome.assessment.riskLevel = "high"

C20_Score26Witness ==
    rk.mode = "level" /\ rk.done /\ rk.score = 26 /\ rk.level = "medium"

\* C21: the testCoverage factor of an assessment follows from the share of
\* importing files that have a test file: 0 when more than half of them have one
\* or when there are no importing files, 5 when at least one but no more than
\* half of them have one, 10 when none has one.
C21_TestCoverageByShare ==
    (rk.mode = "assess" /\ rk.done /\ ~rk.outcome.threw) =>
        LET n == rk.call.files.count
            k == rk.call.files.withTests
        IN  rk.outcome.assessment.factors.testCoverage.score =
                IF n = 0 \/ 2 * k > n THEN 0
                ELSE IF k >= 1 THEN 5
                ELSE 10

\* the same, for projects where every importing file weighs at least one percent
C21_TestCoverageByShareSmall ==
    (rk.mode = "assess" /\ rk.done /\ ~rk.outcome.threw /\ rk.call.files.count <= 100) =>
        LET n == rk.call.files.count
            k == rk.call.files.withTests
        IN  rk.outcome.assessment.factors.testCoverage.score =
                IF n = 0 \/ 2 * k > n THEN 0
                ELSE IF k >= 1 THEN 5
                ELSE 10

\* 51 of 101 importing files have a test, yet the factor is 5
C21_RoundedDownWitness ==
    /\ rk.mode = "assess" /\ rk.done /\ ~rk.outcome.threw
    /\ rk.call.files.count = 101 /\ rk.call.files.withTests = 51
    /\ rk.outcome.assessment.factors.testCoverage.score = 5

\* 1 of 201 importing files has a test, yet the factor is 10
C21_RoundedToZeroWitness ==
    /\ rk.mode = "assess" /\ rk.done /\ ~rk.outcome.threw
    /\ rk.call.files.count = 201 /\ rk.call.files.withTests = 1
    /\ rk.outcome.assessment.factors.testCoverage.score = 10

\* the registry lookup failed: execution error, non-zero exit or empty output
RegistryFailed(registry) ==
    registry.threw \/ registry.exitCode # 0 \/ registry.stdout = <<>>

\* C22: assessRisk throws an error naming the package, and returns no assessment,
\* when fromVersion is not given and the manifest does not list the package, and
\* when toVersion is not given and the registry lookup fails.
C22_MissingVersionIsFatal ==
    (rk.mode = "assess" /\ rk.done) =>
        /\ (rk.call.fromVersion.isNull /\ rk.call.manifestVersion.isNull) =>
              /\ rk.outcome.threw
              /\ rk.outcome.error = <<"Package \"", RiskPackage, "\" not found in package.json">>
              /\ rk.outcome.assessment = NoAssessment
        /\ (rk.call.toVersion.isNull /\ RegistryFailed(rk.call.registry)) =>
              /\ rk.outcome.threw
              /\ RiskPackage \in Range(rk.outcome.error)
              /\ rk.outcome.assessment = NoAssessment
        /\ (/\ ~rk.call.fromVersion.isNull
            /\ rk.call.toVersion.isNull /\ RegistryFailed(rk.call.registry)) =>
              rk.outcome.error = <<"Could not fetch latest version for \"", RiskPackage, "\"">>

\* fromVersion given, toVersion not, and `npm view` exits with 1
C22_Witness ==
    /\ rk.mode = "assess" /\ rk.done
    /\ ~rk.call.fromVersion.isNull /\ rk.call.toVersion.isNull
    /\ ~rk.call.registry.threw /\ rk.call.registry.exitCode = 1
    /\ rk.outcome.threw
    /\ rk.outcome.error = <<"Could not fetch latest version for \"", RiskPackage, "\"">>

\* neither version given and the package is not in the manifest
C22_NotInManifestWitness ==
    /\ rk.mode = "assess" /\ rk.done
    /\ rk.call.fromVersion.isNull /\ rk.call.manifestVersion.isNull
    /\ rk.outcome.threw
    /\ rk.outcome.error = <<"Package \"", RiskPackage, "\" not found in package.json">>

\* --- properties of the Dependabot analyzer ---
\* the prerequisite checks in the order the claim gives: what the command of each
\* did, the command, and the type tag of its error
PrerequisiteOrder ==
    <<[outcome |-> db.env.installed, command |-> "gh --version", type |-> "gh_not_installed"],
      [outcome |-> db.env.authenticated, command |-> "gh auth status",
       type |-> "gh_not_authenticated"],
      [outcome |-> db.env.repo, command |-> "git rev-parse --git-dir", type |-> "not_git_repo"],
      [outcome |-> db.env.remote, command |-> "gh repo view --json name",
       type |-> "no_github_remote"]>>

PrerequisiteFails(i) ==
    PrerequisiteOrder[i].outcome.threw \/ PrerequisiteOrder[i].outcome.exitCode # 0

FailingPrerequisites == {i \in 1..4 : PrerequisiteFails(i)}

\* C23: analyzeDependabot runs gh --version, gh auth status, git rev-parse and
\* gh repo view in this order, each only after the earlier ones passed; when one
\* fails (non-zero exit or exec throwing) the call returns an error result with
\* the type tag of the first failing check and a message, and no later check and
\* no pull-request query has run.
C23_FirstFailingCheckReturns ==
    /\ \A i \in 1..Len(db.ran) :
          /\ i <= 4 => db.ran[i] = PrerequisiteOrder[i].command
          /\ \A j \in 1..4 : j < i => ~PrerequisiteFails(j)
    /\ (db.pc = "returned" /\ FailingPrerequisites # {}) =>
          LET first == CHOOSE i \in FailingPrerequisites : \A j \in FailingPrerequisites : i <= j
          IN  /\ db.result.error
              /\ db.result.type = PrerequisiteOrder[first].type
              /\ db.result.message # ""
              /\ Len(db.ran) = first
    /\ (db.pc = "returned" /\ FailingPrerequisites = {}) => ~db.result.error
    /\ (db.pc \notin {"none", "returned"} /\ FailingPrerequisites # {}) =>
          \A i \in FailingPrerequisites : Len(db.ran) < i \/ Len(db.ran) = 0

\* git rev-parse throws in a project where gh repo view would fail too and a
\* pull-request query would answer: the result is not_git_repo after three commands
C23_Witness ==
    /\ db.pc = "returned"
    /\ db.env.repo.threw /\ db.env.remote.exitCode # 0 /\ db.env.app.stdout = "list"
    /\ db.result.error /\ db.result.type = "not_git_repo"
    /\ db.ran = <<"gh --version", "gh auth status", "git rev-parse --git-dir">>

\* all four checks pass and both queries run
C23_AllPassWitness ==
    /\ db.pc = "returned" /\ ~db.result.error
    /\ Len(db.ran) = 6 /\ db.result.summary.total = 3

\* --- properties of the imports analyzer ---
\* the statements of the readable files that name the package, each with its file
PackageStatements ==
    {x \in [file : 1..Len(im.files), at : 1..3] :
        /\ im.files[x.file].readable
        /\ x.at <= Len(im.files[x.file].code)
        /\ im.files[x.file].code[x.at].module[1] = "lodash"}

StatementAt(x) == im.files[x.file].code[x.at]

\* the identifiers of named imports and named re-exports, before any alias
NamedSpecifiersFound ==
    {IF e.propertyName # "" THEN e.propertyName ELSE e.name :
        e \in UNION {Range(StatementAt(x).elements) :
                        x \in {y \in PackageStatements :
                                  /\ StatementAt(y).kind \in {"import", "export"}
                                  /\ StatementAt(y).bindings = "named"}}}

Ascending(names) ==
    \A i \in 1..Len(names), j \in 1..Len(names) :
        i < j => NameRank(names[i]) < NameRank(names[j])

\* C24: breakdown.namedImports is the ascending, duplicate-free list of exactly
\* the identifiers of named imports and re-exports found across all files;
\* defaultImports and namespaceImports count the import declarations with a
\* default binding and with a namespace binding.
C24_NamedImportsExact ==
    im.done =>
        /\ Ascending(im.analysis.breakdown.namedImports)
        /\ Range(im.analysis.breakdown.namedImports) = NamedSpecifiersFound
        /\ im.analysis.breakdown.defaultImports =
              Cardinality({x \in PackageStatements :
                              /\ StatementAt(x).kind = "import"
                              /\ StatementAt(x).default # ""})
        /\ im.analysis.breakdown.namespaceImports =
              Cardinality({x \in PackageStatements :
                              /\ StatementAt(x).kind = "import"
                              /\ StatementAt(x).bindings = "namespace"})

\* what holds of the breakdown: the list is ascending and duplicate-free, contains
\* every named identifier, and the two counts are right
C24_SortedSupersetAndCounts ==
    im.done =>
        /\ Ascending(im.analysis.breakdown.namedImports)
        /\ NamedSpecifiersFound \subseteq Range(im.analysis.breakdown.namedImports)
        /\ im.analysis.breakdown.defaultImports =
              Cardinality({x \in PackageStatements :
                              /\ StatementAt(x).kind = "import"
                              /\ StatementAt(x).default # ""})
        /\ im.analysis.breakdown.namespaceImports =
              Cardinality({x \in PackageStatements :
                              /\ StatementAt(x).kind = "import"
                              /\ StatementAt(x).bindings = "namespace"})

\* a project whose only import is `import _ from "lodash"` reports "_" as a named import
C24_DefaultNameListedWitness ==
    /\ im.done
    /\ Len(im.files) = 1 /\ im.files[1].code = <<DefaultImport>>
    /\ im.analysis.breakdown.namedImports = <<"_">>
    /\ im.analysis.breakdown.defaultImports = 1

====
